---- MODULE Spec2Model ----
(***************************************************************************)
(* Model of the MQTT request/response client of dab-adb-bridge             *)
(* (src/adapters/dab-adb-bridge/src/lib/mqtt_client/client.ts) and of the  *)
(* telemetry sessions of DabDeviceBase.                                    *)
(*                                                                         *)
(* Topics are sequences of path segments ("a/b/c" is <<"a","b","c">>).     *)
(* JSON objects are sequences of <<key, value>> pairs, so that field order *)
(* is part of a value.  A wire payload (Buffer) is <<"empty">>,            *)
(* <<"json", obj>> (the text JSON.stringify produced for obj) or           *)
(* <<"garbage", text>> (text that JSON.parse rejects).                     *)
(***************************************************************************)
EXTENDS Integers, Sequences, FiniteSets, TLC

(* ---------------------------- bounds ---------------------------------- *)
MaxReq == 2      \* request() calls per behaviour
MaxResp == 2     \* messages delivered on one response topic
MaxInbound == 2  \* inbound requests delivered to handle() listeners
MaxCalls == 3    \* telemetry start/stop calls per behaviour
MaxKeyCalls == 2 \* telemetry calls per behaviour when several keys are in play
MaxTicks == 2    \* firings of telemetry interval timers per behaviour
MaxRestarts == 2 \* restartDevice requests per behaviour
MaxStatus == 600 \* statuses handed to dabResponse range over -MaxStatus .. MaxStatus
MaxSubs == 3     \* subscribe() calls per behaviour
MaxMsgs == 2     \* messages delivered to subscriptions per behaviour
MaxEvents == 5   \* 'connect' events, and 'error' events, the mqtt client emits

(* ------------------------ program constants --------------------------- *)
DefaultTimeoutMs == 5000
TimeoutStatus == 408
ParseFailureStatus == 500

(* ------------------------- values and topics -------------------------- *)
Topics == { <<"dab", "list">>, <<"dab", "exit">> }
RequestPayloads == { <<>>, << <<"appId", "youtube">> >> }
TimeoutOptions == { 0, 100 }     \* options.timeoutMs; 0 also stands for unset

ReqIds == 1 .. MaxReq

HasKey(obj, key) == \E i \in DOMAIN obj : obj[i][1] = key
Get(obj, key) == obj[CHOOSE i \in DOMAIN obj : obj[i][1] = key][2]

EmptyBuf == <<"empty">>
Garbage == <<"garbage", "not json">>

\* JSON.stringify(payload) in wrap().publish
Stringify(payload) == <<"json", payload>>

\* mutant: a parse failure is swallowed and the empty object is handed on
ParseMessageSwallow(topic, raw) ==
    IF raw[1] = "json" THEN raw[2] ELSE <<>>
\* handleMessage: the value handed to the listeners for a wire payload
ParseMessage(topic, raw) ==
    IF raw[1] = "empty" THEN <<>>
    ELSE IF raw[1] = "json" THEN raw[2]
    ELSE << <<"status", ParseFailureStatus>>, <<"error", "failed to parse msg">>,
            <<"msg", raw[2]>>, <<"packet", topic>> >>

\* uuidv4(): the n-th identifier drawn is a fresh string
uuidv4(n) == ToString(n)

\* mutant: the request id is left out of the topic
RequestTopicNoId(topic, requestId) == topic
\* `${topic}/${requestId}`
RequestTopic(topic, requestId) == Append(topic, requestId)
ResponseTopic(requestTopic) == <<"_response">> \o requestTopic

\* convertPattern: MQTT wildcards to EventEmitter2 wildcards
ConvertSegment(s) == IF s = "+" THEN "*" ELSE IF s = "#" THEN "**" ELSE s
convertPattern(topic) == [i \in DOMAIN topic |-> ConvertSegment(topic[i])]

\* EventEmitter2 (wildcard: true, delimiter "/"): does a listener registered
\* for `event` receive an emit on `topic`
EventMatches(event, topic) ==
    /\ Len(event) = Len(topic)
    /\ \A i \in DOMAIN event : event[i] = "*" \/ event[i] = topic[i]

\* the broker's topic-filter matching
FilterMatches(filter, topic) ==
    /\ Len(filter) = Len(topic)
    /\ \A i \in DOMAIN filter : filter[i] = "+" \/ filter[i] = topic[i]

Timeout(timeoutMs) == IF timeoutMs = 0 THEN DefaultTimeoutMs ELSE timeoutMs

\* mutant: the timeout rejection carries the generic status
TimeoutErrorGeneric(topic, timeout) ==
    << <<"name", "TimeoutError">>,
       <<"message", <<"Failed to receive response from", topic, "within", timeout, "ms">> >>,
       <<"status", 500>> >>
\* new TimeoutError(`Failed to receive response from ${topic} within ${timeout}ms`)
TimeoutError(topic, timeout) ==
    << <<"name", "TimeoutError">>,
       <<"message", <<"Failed to receive response from", topic, "within", timeout, "ms">> >>,
       <<"status", TimeoutStatus>> >>

PublishError == << <<"name", "Error">>, <<"message", <<"publish failed">> >> >>
SubscribeError == << <<"name", "Error">>, <<"message", <<"subscribe failed">> >> >>

Pending == [state |-> "pending", value |-> <<>>]
Resolved(v) == [state |-> "resolved", value |-> v]
Rejected(v) == [state |-> "rejected", value |-> v]

\* mutant: a later resolve()/reject() replaces the outcome
SettleOverwrite(p, outcome) == outcome
\* resolve()/reject() of a Promise: only the first call settles it
Settle(p, outcome) == IF p.state = "pending" THEN outcome ELSE p

\* mutant: the comparison is off by one downwards (status 299 rejects)
ResponseOutcomeFrom299(msg) ==
    IF HasKey(msg, "status") /\ Get(msg, "status") > 298
    THEN Rejected(msg) ELSE Resolved(msg)
\* mutant: the comparison is off by one upwards (status 300 resolves)
ResponseOutcomeFrom301(msg) ==
    IF HasKey(msg, "status") /\ Get(msg, "status") > 300
    THEN Rejected(msg) ELSE Resolved(msg)
\* the response listener of request(): which way a message settles the call
ResponseOutcome(msg) ==
    IF HasKey(msg, "status") /\ Get(msg, "status") > 299
    THEN Rejected(msg) ELSE Resolved(msg)

VARIABLES
    nextId,       \* number of uuids drawn so far
    req,          \* req[r]: [topic, requestTopic, timeout] of call r, or NoReq
    timer,        \* timer[r]: "none", "armed", "cleared" or "fired"
    promise,      \* promise[r]: the promise request() returned
    listeners,    \* the emitter: set of [event, cb]
    subCall,      \* subCall[r]: client.subscribe() call: "none", "sent", "ok", "rejected"
    pubCall,      \* pubCall[r]: client.publish() call: "none", "sent", "ok" (the
                  \* broker has the request message), "failed" (it never got it)
    responses,    \* responses[r]: messages the broker delivered on r's response topic
    endQueue,     \* endQueue[r]: queued subscriptionPromise.then(s => s.end())
    unsubPending, \* unsubPending[r]: client.unsubscribe() calls in flight
    unsubIssued,  \* unsubIssued[r]: client.unsubscribe() calls made so far
    brokerSubs,   \* topic filters the broker holds for this connection
    first,        \* first[r]: the first terminal event of call r, <<>> if none yet
    hSub,         \* hSub[p]: subscribe call of handle(p, ..): "none", "sent", "ok", "rejected"
    handlerSubscriptions,  \* prefixes whose subscription handle() has stored
    nextTask,     \* number of inbound requests dispatched so far
    task,         \* task[i]: the listener invocation handle() made for inbound request i
    pubs,         \* pubs[i]: the publish calls of task i, oldest first
    telemetry,    \* this.telemetry: property name -> timer (0: no such property)
    timers,       \* timers[c]: the interval timer made by call c: "none", "live", "cleared"
    nextCall,     \* number of telemetry calls made so far
    call,         \* call[c]: the c-th start/stop telemetry call
    invocations,  \* number of producer (cb) invocations so far
    inflight,     \* producer invocations of timer ticks that have not yet returned
    metrics,      \* client.publish calls made for telemetry messages
    ticks,        \* number of interval timer firings so far
    env,          \* a dabResponse(status, error) call: its arguments and its outcome
    capCall,      \* the last call of a capability method of the base class
    nextSub,      \* number of subscribe() calls made so far
    subs,         \* subs[s]: [topic, state] of the s-th subscribe() call
    wire,         \* subscribe/unsubscribe calls sent and not yet handled by the broker
    got,          \* got[s]: messages the listener of subscription s has received
    msgs,         \* number of messages delivered to the subscriptions' topics
    conn,         \* a connect() call: its promise, its flags and what it has done
    ended,        \* Client.end() has closed the connection
    bridge,       \* the adb bridge: its app table, its last application request and
                  \* its restart requests
    life          \* init() and stop() of the bridge: their positions, the publish
                  \* calls on the wire, the publishes the broker has handled and
                  \* the retained messages it holds

reqVars == <<nextId, req, timer, promise, subCall, pubCall, responses,
             endQueue, unsubPending, unsubIssued, first>>
handlerVars == <<hSub, handlerSubscriptions, nextTask, task, pubs>>
telVars == <<telemetry, timers, nextCall, call, invocations, inflight, metrics, ticks>>
subVars == <<nextSub, subs, wire, got, msgs>>
restVars == <<env, capCall, subVars, conn, ended, bridge, life>>
vars == <<reqVars, listeners, brokerSubs, handlerVars, telVars, restVars>>

NoReq == [topic |-> <<>>, requestTopic |-> <<>>, timeout |-> 0, payload |-> <<>>]

NoTask == [state |-> "none", prefix |-> <<>>, requestTopic |-> <<>>, msg |-> <<>>,
           result |-> <<>>]
TaskIds == 1 .. MaxInbound

ReqCb(r) == <<"request", r>>
HandlerCb(p) == <<"handler", p>>

(* ----------------------- telemetry: values ---------------------------- *)
\* JavaScript values a request can carry in data.frequency and data.appId
JsInt(n) == [type |-> "number", integer |-> TRUE, num |-> n, str |-> ""]
JsFraction == [type |-> "number", integer |-> FALSE, num |-> 1, str |-> ""]   \* 1.5
JsString(t) == [type |-> "string", integer |-> FALSE, num |-> 0, str |-> t]
JsUndefined == [type |-> "undefined", integer |-> FALSE, num |-> 0, str |-> ""]

AppIds == { "youtube", "device" }
\* property names of this.telemetry: "device" and the appIds
TelemetryProps == { "device" } \cup AppIds

CallIds == 1 .. MaxCalls
NoCall == [op |-> "none", frequency |-> JsUndefined, appId |-> JsUndefined,
           pc |-> "none", response |-> <<>>, value |-> <<>>]

\* the Client after its constructor and the DabDeviceBase after its own
InitClient ==
    /\ nextId = 0
    /\ req = [r \in ReqIds |-> NoReq]
    /\ timer = [r \in ReqIds |-> "none"]
    /\ promise = [r \in ReqIds |-> Pending]
    /\ listeners = {}
    /\ subCall = [r \in ReqIds |-> "none"]
    /\ pubCall = [r \in ReqIds |-> "none"]
    /\ responses = [r \in ReqIds |-> 0]
    /\ endQueue = [r \in ReqIds |-> 0]
    /\ unsubPending = [r \in ReqIds |-> 0]
    /\ unsubIssued = [r \in ReqIds |-> 0]
    /\ brokerSubs = {}
    /\ first = [r \in ReqIds |-> <<>>]
    /\ hSub = [p \in Topics |-> "none"]
    /\ handlerSubscriptions = {}
    /\ nextTask = 0
    /\ task = [i \in TaskIds |-> NoTask]
    /\ pubs = [i \in TaskIds |-> <<>>]
    /\ telemetry = [k \in TelemetryProps |-> 0]
    /\ timers = [c \in CallIds |-> "none"]
    /\ nextCall = 0
    /\ call = [c \in CallIds |-> NoCall]
    /\ invocations = 0
    /\ inflight = {}
    /\ metrics = {}
    /\ ticks = 0

NoEnv == [status |-> 200, error |-> <<>>, result |-> <<>>, done |-> FALSE]

NoCapCall == [method |-> "none", response |-> <<>>]

SubIds == 1 .. MaxSubs
NoSub == [topic |-> <<>>, state |-> "none"]
SubCb(s) == <<"subscription", s>>
\* the state of the subscriptions before the first subscribe() call
InitSubs ==
    /\ nextSub = 0
    /\ subs = [s \in SubIds |-> NoSub]
    /\ wire = <<>>
    /\ got = [s \in SubIds |-> 0]
    /\ msgs = 0

\* before connect() is called
NoConn == [started |-> FALSE, onConnected |-> FALSE, promise |-> Pending,
           connected |-> FALSE, initialized |-> FALSE, errorListener |-> FALSE,
           ending |-> "none", error |-> <<>>, clients |-> 0, onConnectedCalls |-> 0,
           connects |-> 0, errors |-> 0, timedOut |-> FALSE, unhandled |-> 0]

(* --------------------- the adb bridge: values ------------------------- *)
\* config.get("appMap"): the entry of an appId is one implementation
\* {package, intent, optionsPrefix?} or an array of candidate implementations
Impl(package, optionsPrefix) ==
    [package |-> package, intent |-> << <<"-n">>, <<package>> >>, optionsPrefix |-> optionsPrefix]
\* Object.keys(this.appMap), in order
AppKeys == <<"youtube", "netflix">>
ConfigAppMap ==
    [a \in {"youtube", "netflix"} |->
        IF a = "youtube"
        THEN [isArray |-> TRUE,
              impls |-> << Impl("com.youtube.tv", <<>>), Impl("com.youtube.mobile", <<>>) >>]
        ELSE [isArray |-> FALSE, impls |-> << Impl("com.netflix", << <<"-d">> >>) >>]]
Packages == { "com.youtube.tv", "com.youtube.mobile", "com.netflix" }
\* this.appMap[appId] for an appId that is no key of the table
NoEntry == [isArray |-> FALSE, impls |-> <<>>]
NoBridgeCall == [op |-> "none", appId |-> JsUndefined, response |-> <<>>, actions |-> <<>>]
RestartIds == 1 .. MaxRestarts
NoBridge == [appMap |-> ConfigAppMap, last |-> NoBridgeCall,
             restart |-> [i \in RestartIds |-> [pc |-> "none", response |-> <<>>]],
             log |-> <<>>]

\* the bridge before init(uri)
NoLife == [initPc |-> "none", stopPc |-> "none", connection |-> "none",
           initFailed |-> FALSE, out |-> <<>>, handled |-> {}, retained |-> {}]

Init ==
    /\ InitClient
    /\ env = NoEnv
    /\ capCall = NoCapCall
    /\ InitSubs
    /\ conn = NoConn
    /\ ended = FALSE
    /\ bridge = NoBridge
    /\ life = NoLife

ResponseFilter(r) == ResponseTopic(req[r].requestTopic)
ResponseEvent(r) == convertPattern(ResponseFilter(r))

\* Client.subscribe: emitter.on(convertPattern(topic), callback)
AddListener(ls, topic, cb) == ls \cup {[event |-> convertPattern(topic), cb |-> cb]}

\* end() of a subscription: emitter.removeListener(event, callback)
RemoveListener(ls, topic, cb) == ls \ {[event |-> convertPattern(topic), cb |-> cb]}

\* emitter.listeners(event) in wildcard mode: a registered listener counts
\* when its pattern and the queried event agree segment by segment, a "*" on
\* either side standing for any segment
EventsOverlap(e1, e2) ==
    /\ Len(e1) = Len(e2)
    /\ \A i \in DOMAIN e1 : e1[i] = e2[i] \/ e1[i] = "*" \/ e2[i] = "*"

\* mutant: end() unsubscribes without looking at the remaining listeners
NoListenerLeftUnchecked(ls, topic) == TRUE
\* end() of a subscription: this.emitter.listeners(event).length === 0
NoListenerLeft(ls, topic) == ~ \E l \in ls : EventsOverlap(l.event, convertPattern(topic))

\* emitter.emit(topic, ...): the request() calls whose listener is invoked
Receivers(topic) ==
    {q \in ReqIds : \E l \in listeners : l.cb = ReqCb(q) /\ EventMatches(l.event, topic)}

\* request(topic, payload, {timeoutMs}): the synchronous part of the call:
\* arm the timer, subscribe (listener on, broker subscribe sent), publish
Request(topic, payload, timeoutMs) ==
    /\ nextId < MaxReq
    /\ LET r == nextId + 1
           requestTopic == RequestTopic(topic, uuidv4(r))
       IN /\ nextId' = r
          /\ req' = [req EXCEPT ![r] = [topic |-> topic, requestTopic |-> requestTopic,
                                        timeout |-> Timeout(timeoutMs), payload |-> payload]]
          /\ timer' = [timer EXCEPT ![r] = "armed"]
          /\ listeners' = AddListener(listeners, ResponseTopic(requestTopic), ReqCb(r))
          /\ subCall' = [subCall EXCEPT ![r] = "sent"]
          /\ pubCall' = [pubCall EXCEPT ![r] = "sent"]
    /\ UNCHANGED <<promise, responses, endQueue, unsubPending, unsubIssued,
                   brokerSubs, first>>
    /\ UNCHANGED <<handlerVars, telVars, restVars>>

\* client.subscribe(topic) of call r is granted: `await` in subscribe() returns
SubscribeOk(r) ==
    /\ subCall[r] = "sent"
    /\ subCall' = [subCall EXCEPT ![r] = "ok"]
    /\ brokerSubs' = brokerSubs \cup {ResponseFilter(r)}
    /\ UNCHANGED <<nextId, req, timer, promise, listeners, pubCall, responses,
                   endQueue, unsubPending, unsubIssued, first>>
    /\ UNCHANGED <<handlerVars, telVars, restVars>>

\* client.subscribe(topic) of call r rejects: subscriptionPromise is rejected,
\* nothing in request() observes it
SubscribeFails(r) ==
    /\ subCall[r] = "sent"
    /\ subCall' = [subCall EXCEPT ![r] = "rejected"]
    /\ UNCHANGED <<nextId, req, timer, promise, listeners, pubCall, responses,
                   endQueue, unsubPending, unsubIssued, brokerSubs, first>>
    /\ UNCHANGED <<handlerVars, telVars, restVars>>

\* client.publish(requestTopic, ...) of call r went through: the connection
\* carries the calls in the order they were made, the subscribe first
PublishOk(r) ==
    /\ pubCall[r] = "sent"
    /\ subCall[r] # "sent"
    /\ pubCall' = [pubCall EXCEPT ![r] = "ok"]
    /\ UNCHANGED <<nextId, req, timer, promise, listeners, subCall, responses,
                   endQueue, unsubPending, unsubIssued, brokerSubs, first>>
    /\ UNCHANGED <<handlerVars, telVars, restVars>>

\* client.publish(requestTopic, ...) of call r rejects: the .catch of request()
PublishFails(r) ==
    /\ pubCall[r] = "sent"
    /\ pubCall' = [pubCall EXCEPT ![r] = "failed"]
    /\ endQueue' = [endQueue EXCEPT ![r] = @ + 1]
    /\ promise' = [promise EXCEPT ![r] = Settle(@, Rejected(PublishError))]
    /\ first' = [first EXCEPT ![r] = IF @ = <<>> THEN <<"publishFailed", <<>> >> ELSE @]
    /\ UNCHANGED <<nextId, req, timer, listeners, subCall, responses,
                   unsubPending, unsubIssued, brokerSubs>>
    /\ UNCHANGED <<handlerVars, telVars, restVars>>

\* the timer of call r fires
TimerFires(r) ==
    /\ timer[r] = "armed"
    /\ timer' = [timer EXCEPT ![r] = "fired"]
    /\ promise' = [promise EXCEPT ![r] =
                      Settle(@, Rejected(TimeoutError(req[r].topic, req[r].timeout)))]
    /\ endQueue' = [endQueue EXCEPT ![r] = @ + 1]
    /\ first' = [first EXCEPT ![r] = IF @ = <<>> THEN <<"timer", <<>> >> ELSE @]
    /\ UNCHANGED <<nextId, req, listeners, subCall, pubCall, responses,
                   unsubPending, unsubIssued, brokerSubs>>
    /\ UNCHANGED <<handlerVars, telVars, restVars>>

\* handleMessage(topic, raw) followed by the response listeners of request()
\* that the emitter invokes for it
HandleResponse(topic, raw) ==
    LET msg == ParseMessage(topic, raw)
        rcv == Receivers(topic)
    IN /\ timer' = [q \in ReqIds |->
                      IF q \in rcv /\ timer[q] = "armed" THEN "cleared" ELSE timer[q]]
       /\ promise' = [q \in ReqIds |->
                      IF q \in rcv THEN Settle(promise[q], ResponseOutcome(msg))
                      ELSE promise[q]]
       /\ endQueue' = [q \in ReqIds |->
                      IF q \in rcv THEN endQueue[q] + 1 ELSE endQueue[q]]
       /\ first' = [q \in ReqIds |->
                      IF q \in rcv /\ first[q] = <<>> THEN <<"message", msg>>
                      ELSE first[q]]

\* a peer that received request r publishes raw on the paired response topic
\* and the broker delivers it to this connection
Respond(r, raw) ==
    /\ pubCall[r] = "ok"
    /\ responses[r] < MaxResp
    /\ LET topic == ResponseTopic(req[r].requestTopic)
       IN /\ \E f \in brokerSubs : FilterMatches(f, topic)
          /\ HandleResponse(topic, raw)
    /\ responses' = [responses EXCEPT ![r] = @ + 1]
    /\ UNCHANGED <<nextId, req, listeners, subCall, pubCall, unsubPending,
                   unsubIssued, brokerSubs>>
    /\ UNCHANGED <<handlerVars, telVars, restVars>>

\* one queued subscriptionPromise.then(s => s.end()) runs: it can only once
\* subscriptionPromise is fulfilled
RunEnd(r) ==
    /\ endQueue[r] > 0
    /\ subCall[r] = "ok"
    /\ endQueue' = [endQueue EXCEPT ![r] = @ - 1]
    /\ listeners' = RemoveListener(listeners, ResponseFilter(r), ReqCb(r))
    /\ IF NoListenerLeft(listeners', ResponseFilter(r))
       THEN /\ unsubPending' = [unsubPending EXCEPT ![r] = @ + 1]
            /\ unsubIssued' = [unsubIssued EXCEPT ![r] = @ + 1]
       ELSE UNCHANGED <<unsubPending, unsubIssued>>
    /\ UNCHANGED <<nextId, req, timer, promise, subCall, pubCall, responses,
                   brokerSubs, first>>
    /\ UNCHANGED <<handlerVars, telVars, restVars>>

\* a client.unsubscribe(topic) issued by end() completes
UnsubscribeDone(r) ==
    /\ unsubPending[r] > 0
    /\ unsubPending' = [unsubPending EXCEPT ![r] = @ - 1]
    /\ brokerSubs' = brokerSubs \ {ResponseFilter(r)}
    /\ UNCHANGED <<nextId, req, timer, promise, listeners, subCall, pubCall,
                   responses, endQueue, unsubIssued, first>>
    /\ UNCHANGED <<handlerVars, telVars, restVars>>

\* payloads a peer can put on a response topic
ResponseObjs ==
    { << <<"status", 200>>, <<"applications", "youtube">> >>,
      << <<"status", 299>> >>,
      << <<"status", 300>>, <<"error", "redirect">> >>,
      << <<"status", 100>> >> }
ResponseRaws == {Stringify(o) : o \in ResponseObjs} \cup {EmptyBuf, Garbage}

\* ---- one request() call in full detail ----
Next ==
    \/ \E t \in Topics, p \in RequestPayloads, ms \in TimeoutOptions :
          nextId = 0 /\ Request(t, p, ms)
    \/ \E r \in ReqIds : SubscribeOk(r)
    \/ \E r \in ReqIds : SubscribeFails(r)
    \/ \E r \in ReqIds : PublishOk(r)
    \/ \E r \in ReqIds : PublishFails(r)
    \/ \E r \in ReqIds : TimerFires(r)
    \/ \E r \in ReqIds, raw \in ResponseRaws : Respond(r, raw)
    \/ \E r \in ReqIds : RunEnd(r)
    \/ \E r \in ReqIds : UnsubscribeDone(r)

Spec == Init /\ [][Next]_vars

\* ---- up to MaxReq concurrent request() calls on one topic ----
ConcurrentTopic == <<"dab", "list">>
ConcurrentRaws ==
    { Stringify(<< <<"status", 200>>, <<"applications", "youtube">> >>),
      Stringify(<< <<"status", 300>>, <<"error", "redirect">> >>) }

NextConcurrent ==
    \/ Request(ConcurrentTopic, <<>>, 0)
    \/ \E r \in ReqIds : SubscribeOk(r)
    \/ \E r \in ReqIds : PublishOk(r)
    \/ \E r \in ReqIds : PublishFails(r)
    \/ \E r \in ReqIds : TimerFires(r)
    \/ \E r \in ReqIds, raw \in ConcurrentRaws : responses[r] = 0 /\ Respond(r, raw)
    \/ \E r \in ReqIds : RunEnd(r)
    \/ \E r \in ReqIds : UnsubscribeDone(r)

SpecConcurrent == Init /\ [][NextConcurrent]_vars

(* ============================ handle() ================================ *)
DefaultErrorStatus == 500

\* JSON.stringify(serializeError(error)): the JSON text of the error's fields
SerializeError(err) == Stringify(err)

\* a thrown value that is null or undefined (reading a property of it throws)
NullValue == << <<"null", "null">> >>

\* the catch branch of the handle() listener: what is published for a failure
FailureStatus(err) ==
    IF HasKey(err, "status") /\ Get(err, "status") # 0
    THEN Get(err, "status") ELSE DefaultErrorStatus
FailureEnvelope(err, msg) ==
    << <<"status", FailureStatus(err)>>, <<"error", SerializeError(err)>>,
       <<"request", msg>> >>

HandlerFilter(prefix) == Append(prefix, "+")

\* emitter.emit(topic, ...): the handle() registrations whose listener is invoked
HandlerReceivers(topic) ==
    {p \in Topics : \E l \in listeners : l.cb = HandlerCb(p) /\ EventMatches(l.event, topic)}

\* handle(prefix, handler) up to the await: listener on, broker subscribe sent
Handle(prefix) ==
    /\ hSub[prefix] = "none"
    /\ listeners' = AddListener(listeners, HandlerFilter(prefix), HandlerCb(prefix))
    /\ hSub' = [hSub EXCEPT ![prefix] = "sent"]
    /\ UNCHANGED <<handlerSubscriptions, nextTask, task, pubs, brokerSubs>>
    /\ UNCHANGED <<reqVars, telVars, restVars>>

\* the subscribe of handle(prefix, ..) is granted: the subscription is stored
HandleSubscribeOk(prefix) ==
    /\ hSub[prefix] = "sent"
    /\ hSub' = [hSub EXCEPT ![prefix] = "ok"]
    /\ brokerSubs' = brokerSubs \cup {HandlerFilter(prefix)}
    /\ handlerSubscriptions' = handlerSubscriptions \cup {prefix}
    /\ UNCHANGED <<nextTask, task, pubs, listeners>>
    /\ UNCHANGED <<reqVars, telVars, restVars>>

\* the subscribe of handle(prefix, ..) rejects: handle() rejects
HandleSubscribeFails(prefix) ==
    /\ hSub[prefix] = "sent"
    /\ hSub' = [hSub EXCEPT ![prefix] = "rejected"]
    /\ UNCHANGED <<handlerSubscriptions, nextTask, task, pubs, listeners, brokerSubs>>
    /\ UNCHANGED <<reqVars, telVars, restVars>>

\* new Error(`FATAL: Handler for topic (${topic}) failed to receive request topic.`)
FatalError(prefix) ==
    << <<"name", "Error">>,
       <<"message", <<"FATAL: Handler for topic", prefix, "failed to receive request topic.">> >> >>

\* mutant: the listener does not check the packet's topic
DispatchUnchecked(prefix, topic, pktTopic, raw) ==
    /\ nextTask < MaxInbound
    /\ \E f \in brokerSubs : FilterMatches(f, topic)
    /\ prefix \in HandlerReceivers(topic)
    /\ nextTask' = nextTask + 1
    /\ task' = [task EXCEPT ![nextTask + 1] =
                   [state |-> "running", prefix |-> prefix, requestTopic |-> pktTopic,
                    msg |-> ParseMessage(topic, raw), result |-> <<>>]]
    /\ UNCHANGED <<hSub, handlerSubscriptions, pubs, listeners, brokerSubs>>
\* handleMessage for a message on `topic` whose packet carries pktTopic (<<>>
\* when the packet has no topic), then the handle() listener of `prefix` up to
\* `await handler(msg)`: without a request topic the listener returns a
\* rejected promise, otherwise the handler is invoked
Dispatch(prefix, topic, pktTopic, raw) ==
    /\ nextTask < MaxInbound
    /\ \E f \in brokerSubs : FilterMatches(f, topic)
    /\ prefix \in HandlerReceivers(topic)
    /\ nextTask' = nextTask + 1
    /\ IF pktTopic = <<>>
       THEN task' = [task EXCEPT ![nextTask + 1] =
                       [state |-> "rejected", prefix |-> prefix, requestTopic |-> <<>>,
                        msg |-> ParseMessage(topic, raw),
                        result |-> <<"fatal", FatalError(prefix)>>]]
       ELSE task' = [task EXCEPT ![nextTask + 1] =
                       [state |-> "running", prefix |-> prefix, requestTopic |-> pktTopic,
                        msg |-> ParseMessage(topic, raw), result |-> <<>>]]
    /\ UNCHANGED <<hSub, handlerSubscriptions, pubs, listeners, brokerSubs>>

\* a remote client's request on <topic>/<id> is delivered by the broker; the
\* packet handed to the listeners carries the topic, or lacks it
Inbound(topic, raw, hasTopic) ==
    /\ LET requestTopic == RequestTopic(topic, uuidv4(100 + nextTask))
       IN \E prefix \in Topics :
             Dispatch(prefix, requestTopic, IF hasTopic THEN requestTopic ELSE <<>>, raw)
    /\ UNCHANGED <<reqVars, telVars, restVars>>

\* mutant: the response goes to the prefix's response topic, without the id
PublishResponseShared(i, payload) ==
    pubs' = [pubs EXCEPT ![i] =
                Append(@, [topic |-> ResponseTopic(task[i].prefix),
                           raw |-> Stringify(payload)])]
\* this.publish(responseTopic, payload) made by the listener of task i
PublishResponse(i, payload) ==
    pubs' = [pubs EXCEPT ![i] =
                Append(@, [topic |-> ResponseTopic(task[i].requestTopic),
                           raw |-> Stringify(payload)])]

\* handler(msg) of task i fulfils with value: the try branch publishes it
HandlerReturns(i, value) ==
    /\ task[i].state = "running"
    /\ task' = [task EXCEPT ![i].state = "publishing", ![i].result = <<"returned", value>>]
    /\ PublishResponse(i, value)
    /\ UNCHANGED <<hSub, handlerSubscriptions, nextTask, listeners, brokerSubs>>
    /\ UNCHANGED <<reqVars, telVars, restVars>>

\* handler(msg) of task i throws or rejects with err: the catch branch; for a
\* null or undefined err, `error.status` throws inside the catch block, so
\* nothing is published and the listener's promise rejects
HandlerThrows(i, err) ==
    /\ task[i].state = "running"
    /\ IF err = NullValue
       THEN /\ task' = [task EXCEPT ![i].state = "rejected", ![i].result = <<"threw", err>>]
            /\ UNCHANGED pubs
       ELSE /\ task' = [task EXCEPT ![i].state = "publishing", ![i].result = <<"threw", err>>]
            /\ PublishResponse(i, FailureEnvelope(err, task[i].msg))
    /\ UNCHANGED <<hSub, handlerSubscriptions, nextTask, listeners, brokerSubs>>
    /\ UNCHANGED <<reqVars, telVars, restVars>>

\* the publish of task i's response completes: the listener's promise fulfils
ResponsePublishOk(i) ==
    /\ task[i].state = "publishing"
    /\ task' = [task EXCEPT ![i].state = "done"]
    /\ UNCHANGED <<hSub, handlerSubscriptions, nextTask, pubs, listeners, brokerSubs>>
    /\ UNCHANGED <<reqVars, telVars, restVars>>

\* the publish of task i's response rejects: the listener's promise rejects
\* with the transport error
ResponsePublishFails(i) ==
    /\ task[i].state = "publishing"
    /\ task' = [task EXCEPT ![i].state = "rejected"]
    /\ UNCHANGED <<hSub, handlerSubscriptions, nextTask, pubs, listeners, brokerSubs>>
    /\ UNCHANGED <<reqVars, telVars, restVars>>

\* what handlers return and what they fail with
HandlerResults ==
    { << <<"status", 200>>, <<"applications", "youtube">> >>,
      << <<"status", 501>>, <<"error", "List apps not implemented">> >> }
HandlerErrors ==
    { << <<"name", "Error">>, <<"message", "boom">> >>,
      << <<"name", "ErrorWithStatus">>, <<"message", "no such app">>, <<"status", 404>> >>,
      NullValue }
InboundRaws == { Stringify(<< <<"appId", "youtube">> >>), EmptyBuf, Garbage }

NextHandle ==
    \/ \E p \in Topics : Handle(p)
    \/ \E p \in Topics : HandleSubscribeOk(p)
    \/ \E p \in Topics : HandleSubscribeFails(p)
    \/ \E t \in Topics, raw \in InboundRaws : Inbound(t, raw, TRUE)
    \/ \E i \in TaskIds, v \in HandlerResults : HandlerReturns(i, v)
    \/ \E i \in TaskIds, e \in HandlerErrors : HandlerThrows(i, e)
    \/ \E i \in TaskIds : ResponsePublishOk(i)
    \/ \E i \in TaskIds : ResponsePublishFails(i)

SpecHandle == Init /\ [][NextHandle]_vars

\* ---- dispatch of inbound requests, with and without a request topic ----
DispatchRaws == { Stringify(<< <<"appId", "youtube">> >>), EmptyBuf }
NextDispatch ==
    \/ \E p \in Topics : Handle(p)
    \/ \E p \in Topics : HandleSubscribeOk(p)
    \/ \E t \in Topics, raw \in DispatchRaws, hasTopic \in BOOLEAN : Inbound(t, raw, hasTopic)
    \/ \E i \in TaskIds, v \in HandlerResults : HandlerReturns(i, v)
    \/ \E i \in TaskIds, e \in HandlerErrors : HandlerThrows(i, e)
    \/ \E i \in TaskIds : ResponsePublishOk(i)
    \/ \E i \in TaskIds : ResponsePublishFails(i)

SpecDispatch == Init /\ [][NextDispatch]_vars

(* ===================== telemetry sessions ============================= *)
TELEMETRY_METRICS_TOPIC == <<"dab", "device-telemetry", "metrics">>
PlatformMinFrequency == 500

otherVars == <<reqVars, listeners, brokerSubs, handlerVars, restVars>>

\* Number.isInteger(v)
NumberIsInteger(v) == v.type = "number" /\ v.integer

\* an error text is a tuple of its pieces: <<>> is undefined, <<"">> is the
\* empty string; `!error` holds of both
NoErrorText(error) == error = <<>> \/ error = <<"">>
MissingErrorText == <<"Error message must be returned for non 2XX status results">>
\* the outcome of a call that throws new Error(text)
Throw(text) == << <<"throw", text>> >>
Threw(result) == HasKey(result, "throw")

\* mutant: the error text is attached whenever one is given
dabResponseAnyError(status, error) ==
    IF NoErrorText(error)
    THEN (IF status \div 100 # 2 THEN Throw(MissingErrorText) ELSE << <<"status", status>> >>)
    ELSE << <<"status", status>>, <<"error", error>> >>
\* dabResponse(status, error): Math.floor(status / 100) !== 2 asks for an
\* error text and throws without one
dabResponse(status, error) ==
    IF status \div 100 # 2
    THEN (IF NoErrorText(error) THEN Throw(MissingErrorText)
          ELSE << <<"status", status>>, <<"error", error>> >>)
    ELSE << <<"status", status>> >>

FrequencyError == <<"'frequency' must be set as number of milliseconds between updates">>
DeviceStartedError == <<"Device telemetry is already started, stop it first">>
AppStartedError(appId) == <<"App telemetry is already started for ", appId, ", stop it first">>
AppIdStartError == <<"'app' must be set as the application id to start sending telemetry">>
AppIdStopError == <<"'app' must be set as the application id to stop sending telemetry">>
DeviceNotStartedError == <<"Device telemetry not started">>
AppNotStartedError == <<"Device telemetry for ${data.app} not started">>

\* { ...this.dabResponse(), ...{ frequency: data.frequency } }
StartResponse(frequency) == dabResponse(200, <<>>) \o << <<"frequency", frequency>> >>

\* the value the n-th invocation of a producer yields, and the producer
\* function itself taken as a value
ProducerValue(n) == << <<"cpu", n>> >>
ProducerFn == << <<"function", 0>> >>

\* mutant: the already-started check is missing
AlreadyStartedNever(prop) == FALSE
\* if (this.telemetry.device) / if (this.telemetry[data.appId])
AlreadyStarted(prop) == telemetry[prop] # 0

\* mutant: device metrics go to a sub-topic
DeviceMetricsTopicSub == Append(TELEMETRY_METRICS_TOPIC, "device")
DeviceMetricsTopic == TELEMETRY_METRICS_TOPIC
\* `${topics.TELEMETRY_METRICS_TOPIC}/${data.appId}`
AppMetricsTopic(appId) == Append(TELEMETRY_METRICS_TOPIC, appId)

\* the property of this.telemetry a start call works on
Prop(c) == IF call[c].op = "startDevice" THEN "device" ELSE call[c].appId.str
MetricsTopic(c) ==
    IF call[c].op = "startDevice" THEN DeviceMetricsTopic ELSE AppMetricsTopic(call[c].appId.str)

\* a call that returns response without suspending
Returns(c, op, frequency, appId, response) ==
    call' = [call EXCEPT ![c] = [op |-> op, frequency |-> frequency, appId |-> appId,
                                 pc |-> "returned", response |-> response, value |-> <<>>]]

\* this.client.publish(topic, payload) for a telemetry message, made by the
\* start call c (tick 0) or by the tick-th firing of a timer, that of call c
PublishMetrics(c, topic, payload, tick) ==
    metrics' = metrics \cup {[topic |-> topic, payload |-> payload, by |-> c, tick |-> tick]}

\* startDeviceTelemetryImpl(data, cb) up to `await cb()`
StartDeviceTelemetryImpl(c, frequency) ==
    IF ~ NumberIsInteger(frequency)
    THEN /\ Returns(c, "startDevice", frequency, JsUndefined, dabResponse(400, FrequencyError))
         /\ UNCHANGED invocations
    ELSE IF AlreadyStarted("device")
    THEN /\ Returns(c, "startDevice", frequency, JsUndefined, dabResponse(400, DeviceStartedError))
         /\ UNCHANGED invocations
    ELSE /\ invocations' = invocations + 1
         /\ call' = [call EXCEPT ![c] =
                        [op |-> "startDevice", frequency |-> frequency, appId |-> JsUndefined,
                         pc |-> "producing", response |-> <<>>,
                         value |-> ProducerValue(invocations + 1)]]

\* a device binding's startDeviceTelemetry that forwards to the base class
StartDeviceTelemetry(frequency) ==
    /\ nextCall < MaxCalls
    /\ nextCall' = nextCall + 1
    /\ StartDeviceTelemetryImpl(nextCall + 1, frequency)
    /\ UNCHANGED <<telemetry, timers, inflight, metrics, ticks>>
    /\ UNCHANGED otherVars

\* DabDevice.startDeviceTelemetry: type check, raise the frequency to the
\* platform minimum, then the base class
BridgeStartDeviceTelemetry(frequency) ==
    /\ nextCall < MaxCalls
    /\ nextCall' = nextCall + 1
    /\ IF frequency.type # "number" \/ ~ NumberIsInteger(frequency)
       THEN /\ Returns(nextCall + 1, "startDevice", frequency, JsUndefined,
                       dabResponse(400, FrequencyError))
            /\ UNCHANGED invocations
       ELSE StartDeviceTelemetryImpl(nextCall + 1,
                IF frequency.num < PlatformMinFrequency
                THEN JsInt(PlatformMinFrequency) ELSE frequency)
    /\ UNCHANGED <<telemetry, timers, inflight, metrics, ticks>>
    /\ UNCHANGED otherVars

\* startAppTelemetryImpl(data, cb) up to `await this.client.publish(..)`:
\* `await cb` yields the function cb itself, which is what is published
StartAppTelemetry(appId, frequency) ==
    /\ nextCall < MaxCalls
    /\ nextCall' = nextCall + 1
    /\ LET c == nextCall + 1 IN
       IF appId.type # "string"
       THEN /\ Returns(c, "startApp", frequency, appId, dabResponse(400, AppIdStartError))
            /\ UNCHANGED metrics
       ELSE IF frequency.type # "number" \/ ~ NumberIsInteger(frequency)
       THEN /\ Returns(c, "startApp", frequency, appId, dabResponse(400, FrequencyError))
            /\ UNCHANGED metrics
       ELSE IF AlreadyStarted(appId.str)
       THEN /\ Returns(c, "startApp", frequency, appId,
                       dabResponse(400, AppStartedError(appId.str)))
            /\ UNCHANGED metrics
       ELSE /\ call' = [call EXCEPT ![c] =
                           [op |-> "startApp", frequency |-> frequency, appId |-> appId,
                            pc |-> "publishing", response |-> <<>>, value |-> ProducerFn]]
            /\ PublishMetrics(c, AppMetricsTopic(appId.str), ProducerFn, 0)
    /\ UNCHANGED <<telemetry, timers, invocations, inflight, ticks>>
    /\ UNCHANGED otherVars

\* `await cb()` of device start c yields its value: client.publish is called
ProducerReturns(c) ==
    /\ call[c].pc = "producing"
    /\ call' = [call EXCEPT ![c].pc = "publishing"]
    /\ PublishMetrics(c, MetricsTopic(c), call[c].value, 0)
    /\ UNCHANGED <<telemetry, timers, nextCall, invocations, inflight, ticks>>
    /\ UNCHANGED otherVars

\* `await cb()` of device start c rejects: the start call rejects
ProducerFails(c) ==
    /\ call[c].pc = "producing"
    /\ call' = [call EXCEPT ![c].pc = "threw"]
    /\ UNCHANGED <<telemetry, timers, nextCall, invocations, inflight, metrics, ticks>>
    /\ UNCHANGED otherVars

\* the first publish of start c completes: setInterval, the timer is stored
\* in this.telemetry, the success response is returned
MetricsPublishOk(c) ==
    /\ call[c].pc = "publishing"
    /\ timers' = [timers EXCEPT ![c] = "live"]
    /\ telemetry' = [telemetry EXCEPT ![Prop(c)] = c]
    /\ call' = [call EXCEPT ![c].pc = "returned",
                            ![c].response = StartResponse(call[c].frequency)]
    /\ UNCHANGED <<nextCall, invocations, inflight, metrics, ticks>>
    /\ UNCHANGED otherVars

\* the first publish of start c rejects: the start call rejects
MetricsPublishFails(c) ==
    /\ call[c].pc = "publishing"
    /\ call' = [call EXCEPT ![c].pc = "threw"]
    /\ UNCHANGED <<telemetry, timers, nextCall, invocations, inflight, metrics, ticks>>
    /\ UNCHANGED otherVars

\* the interval timer made by start c fires: the device callback invokes
\* cb() and awaits it; the app callback publishes `await cb`, the function
Tick(c) ==
    /\ timers[c] = "live"
    /\ ticks < MaxTicks
    /\ ticks' = ticks + 1
    /\ IF call[c].op = "startDevice"
       THEN /\ invocations' = invocations + 1
            /\ inflight' = inflight \cup {[timer |-> c, tick |-> ticks + 1,
                                            value |-> ProducerValue(invocations + 1)]}
            /\ UNCHANGED metrics
       ELSE /\ PublishMetrics(c, MetricsTopic(c), ProducerFn, ticks + 1)
            /\ UNCHANGED <<invocations, inflight>>
    /\ UNCHANGED <<telemetry, timers, nextCall, call>>
    /\ UNCHANGED otherVars

\* the cb() of a tick yields its value: the timer callback publishes it
TickProducerReturns(e) ==
    /\ e \in inflight
    /\ inflight' = inflight \ {e}
    /\ PublishMetrics(e.timer, MetricsTopic(e.timer), e.value, e.tick)
    /\ UNCHANGED <<telemetry, timers, nextCall, call, invocations, ticks>>
    /\ UNCHANGED otherVars

\* the cb() of a tick rejects: nothing is published for that tick
TickProducerFails(e) ==
    /\ e \in inflight
    /\ inflight' = inflight \ {e}
    /\ UNCHANGED <<telemetry, timers, nextCall, call, invocations, metrics, ticks>>
    /\ UNCHANGED otherVars

\* the else branch of the stop functions: clearInterval(this.telemetry[prop]),
\* delete this.telemetry[prop]
StopSession(prop) ==
    /\ timers' = [timers EXCEPT ![telemetry[prop]] = "cleared"]
    /\ telemetry' = [telemetry EXCEPT ![prop] = 0]

\* stopDeviceTelemetryImpl()
StopDeviceTelemetry ==
    /\ nextCall < MaxCalls
    /\ nextCall' = nextCall + 1
    /\ IF telemetry["device"] = 0
       THEN /\ Returns(nextCall + 1, "stopDevice", JsUndefined, JsUndefined,
                       dabResponse(400, DeviceNotStartedError))
            /\ UNCHANGED <<telemetry, timers>>
       ELSE /\ StopSession("device")
            /\ Returns(nextCall + 1, "stopDevice", JsUndefined, JsUndefined,
                       dabResponse(200, <<>>))
    /\ UNCHANGED <<invocations, inflight, metrics, ticks>>
    /\ UNCHANGED otherVars

\* stopAppTelemetry(data)
StopAppTelemetry(appId) ==
    /\ nextCall < MaxCalls
    /\ nextCall' = nextCall + 1
    /\ IF appId.type # "string"
       THEN /\ Returns(nextCall + 1, "stopApp", JsUndefined, appId,
                       dabResponse(400, AppIdStopError))
            /\ UNCHANGED <<telemetry, timers>>
       ELSE IF telemetry[appId.str] = 0
       THEN /\ Returns(nextCall + 1, "stopApp", JsUndefined, appId,
                       dabResponse(400, AppNotStartedError))
            /\ UNCHANGED <<telemetry, timers>>
       ELSE /\ StopSession(appId.str)
            /\ Returns(nextCall + 1, "stopApp", JsUndefined, appId, dabResponse(200, <<>>))
    /\ UNCHANGED <<invocations, inflight, metrics, ticks>>
    /\ UNCHANGED otherVars

\* the tick-side steps of every specification of telemetry
TelemetrySteps ==
    \/ \E c \in CallIds : ProducerReturns(c)
    \/ \E c \in CallIds : ProducerFails(c)
    \/ \E c \in CallIds : MetricsPublishOk(c)
    \/ \E c \in CallIds : MetricsPublishFails(c)
    \/ \E c \in CallIds : Tick(c)
    \/ \E e \in inflight : TickProducerReturns(e)
    \/ \E e \in inflight : TickProducerFails(e)

\* ---- concurrent start/stop calls for the device session ----
ValidFrequency == JsInt(1000)
NextTelemetry ==
    \/ StartDeviceTelemetry(ValidFrequency)
    \/ StopDeviceTelemetry
    \/ TelemetrySteps

SpecTelemetry == Init /\ [][NextTelemetry]_vars

\* ---- up to MaxKeyCalls calls over the device and the application sessions ----
NextTelemetryKeys ==
    \/ nextCall < MaxKeyCalls /\ StartDeviceTelemetry(ValidFrequency)
    \/ \E a \in AppIds : nextCall < MaxKeyCalls /\ StartAppTelemetry(JsString(a), ValidFrequency)
    \/ nextCall < MaxKeyCalls /\ StopDeviceTelemetry
    \/ \E a \in AppIds : nextCall < MaxKeyCalls /\ StopAppTelemetry(JsString(a))
    \/ TelemetrySteps

SpecTelemetryKeys == Init /\ [][NextTelemetryKeys]_vars

\* ---- one call, every form of argument ----
Frequencies == { JsInt(1000), JsInt(0), JsInt(-1), JsFraction, JsString("1000"), JsUndefined }
AppIdValues == { JsString(a) : a \in AppIds } \cup { JsUndefined }
NextTelemetryArgs ==
    \/ \E f \in Frequencies : nextCall = 0 /\ StartDeviceTelemetry(f)
    \/ \E f \in Frequencies : nextCall = 0 /\ BridgeStartDeviceTelemetry(f)
    \/ \E a \in AppIdValues, f \in Frequencies : nextCall = 0 /\ StartAppTelemetry(a, f)
    \/ nextCall = 0 /\ StopDeviceTelemetry
    \/ \E a \in AppIdValues : nextCall = 0 /\ StopAppTelemetry(a)
    \/ TelemetrySteps

SpecTelemetryArgs == Init /\ [][NextTelemetryArgs]_vars

(* ======================== status envelope ============================= *)
\* arguments of dabResponse: integer statuses, and an error text that is
\* undefined, empty or given
Statuses == (0 - MaxStatus) .. MaxStatus
ErrorTexts == { <<>>, <<"">>, <<"Device telemetry not started">> }

InitResponse ==
    /\ InitClient
    /\ \E s \in Statuses, e \in ErrorTexts :
          env = [status |-> s, error |-> e, result |-> <<>>, done |-> FALSE]
    /\ capCall = NoCapCall
    /\ InitSubs
    /\ conn = NoConn
    /\ ended = FALSE
    /\ bridge = NoBridge
    /\ life = NoLife

\* the call dabResponse(env.status, env.error) is made
DabResponseCall ==
    /\ ~ env.done
    /\ env' = [env EXCEPT !.result = dabResponse(env.status, env.error), !.done = TRUE]
    /\ UNCHANGED <<reqVars, listeners, brokerSubs, handlerVars, telVars, capCall, subVars, conn, ended, bridge, life>>

NextResponse == DabResponseCall

SpecResponse == InitResponse /\ [][NextResponse]_vars

(* ================ default capability methods ========================== *)
\* the capability methods DabDeviceBase defines as not implemented
Capabilities ==
    { "deviceInfo", "listApps", "launchApp", "exitApp", "getAppState", "restartDevice",
      "keyPress", "keyPressLong", "setSystemLanguage", "getSystemLanguage",
      "startDeviceTelemetry", "stopDeviceTelemetry", "startAppTelemetry", "healthCheck" }
NotImplementedStatus == 501

\* the error text of each default method
DefaultError(m) ==
    CASE m = "deviceInfo" -> "Device info not implemented"
      [] m = "listApps" -> "List apps not implemented"
      [] m = "launchApp" -> "Launch app not implemented"
      [] m = "exitApp" -> "Exit app not implemented"
      [] m = "getAppState" -> "Get app state not implemented"
      [] m = "restartDevice" -> "Restart not implemented"
      [] m = "keyPress" -> "Key press not implemented"
      [] m = "keyPressLong" -> "Long key press not implemented"
      [] m = "setSystemLanguage" -> "Set system language not implemented"
      [] m = "getSystemLanguage" -> "Get system language not implemented"
      [] m \in {"startDeviceTelemetry", "stopDeviceTelemetry"} -> "Device telemetry not implemented"
      [] m = "startAppTelemetry" -> "App telemetry not implemented"
      [] m = "healthCheck" -> "Health check not implemented"

\* mutant: restartDevice reports that the restart was accepted
DefaultCapabilityRestarts(m) ==
    IF m = "restartDevice" THEN << <<"status", 202>> >>
    ELSE << <<"status", NotImplementedStatus>>, <<"error", DefaultError(m)>> >>
\* the body of the default method m: return { status: 501, error: "..." }
DefaultCapability(m) == << <<"status", NotImplementedStatus>>, <<"error", DefaultError(m)>> >>

\* a request is served by the default method m of the base class
CallDefault(m) ==
    /\ capCall' = [method |-> m, response |-> DefaultCapability(m)]
    /\ UNCHANGED <<reqVars, listeners, brokerSubs, handlerVars, telVars, env, subVars, conn, ended, bridge, life>>

\* ---- default methods called while telemetry sessions come and go ----
NextDefaults ==
    \/ \E m \in Capabilities : CallDefault(m)
    \/ \E a \in AppIds : nextCall < MaxKeyCalls /\ StartAppTelemetry(JsString(a), ValidFrequency)
    \/ \E a \in AppIds : nextCall < MaxKeyCalls /\ StopAppTelemetry(JsString(a))
    \/ \E c \in CallIds : MetricsPublishOk(c)
    \/ \E c \in CallIds : MetricsPublishFails(c)
    \/ \E c \in CallIds : Tick(c)

SpecDefaults == Init /\ [][NextDefaults]_vars

(* ========================= subscribe() ================================ *)
\* every step of a subscription leaves the rest of the program alone
SubscriptionOnly ==
    UNCHANGED <<reqVars, handlerVars, telVars, env, capCall, conn, ended, bridge, life>>

\* subscribe(topic, callback) up to `await this.client.subscribe(topic)`:
\* the listener is on and the broker subscribe is sent
Subscribe(topic) ==
    /\ nextSub < MaxSubs
    /\ nextSub' = nextSub + 1
    /\ subs' = [subs EXCEPT ![nextSub + 1] = [topic |-> topic, state |-> "subscribing"]]
    /\ listeners' = AddListener(listeners, topic, SubCb(nextSub + 1))
    /\ wire' = Append(wire, [kind |-> "subscribe", topic |-> topic, by |-> nextSub + 1])
    /\ UNCHANGED <<brokerSubs, got, msgs>>
    /\ SubscriptionOnly

\* the broker handles the oldest call on the connection, a subscribe: the
\* filter is held, `await` returns and subscribe() hands out the handle
SubscribeGranted ==
    /\ wire # <<>> /\ Head(wire).kind = "subscribe"
    /\ brokerSubs' = brokerSubs \cup {Head(wire).topic}
    /\ subs' = [subs EXCEPT ![Head(wire).by].state = "active"]
    /\ wire' = Tail(wire)
    /\ UNCHANGED <<nextSub, listeners, got, msgs>>
    /\ SubscriptionOnly

\* end() of the handle of subscription s up to its await: the listener is
\* removed, and the broker unsubscribe is sent if the emitter reports no
\* listener for the event
End(s) ==
    /\ subs[s].state = "active"
    /\ listeners' = RemoveListener(listeners, subs[s].topic, SubCb(s))
    /\ IF NoListenerLeft(listeners', subs[s].topic)
       THEN /\ wire' = Append(wire, [kind |-> "unsubscribe", topic |-> subs[s].topic, by |-> s])
            /\ subs' = [subs EXCEPT ![s].state = "unsubscribing"]
       ELSE /\ subs' = [subs EXCEPT ![s].state = "ended"]
            /\ UNCHANGED wire
    /\ UNCHANGED <<nextSub, brokerSubs, got, msgs>>
    /\ SubscriptionOnly

\* the broker handles the oldest call on the connection, an unsubscribe
Unsubscribed ==
    /\ wire # <<>> /\ Head(wire).kind = "unsubscribe"
    /\ brokerSubs' = brokerSubs \ {Head(wire).topic}
    /\ subs' = [subs EXCEPT ![Head(wire).by].state = "ended"]
    /\ wire' = Tail(wire)
    /\ UNCHANGED <<nextSub, listeners, got, msgs>>
    /\ SubscriptionOnly

\* emitter.emit(topic, ...): the subscriptions whose listener is invoked
SubReceivers(topic) ==
    {s \in SubIds : \E l \in listeners : l.cb = SubCb(s) /\ EventMatches(l.event, topic)}

\* a peer publishes on topic and the broker, holding a matching filter,
\* delivers the message: handleMessage emits it
Deliver(topic) ==
    /\ msgs < MaxMsgs
    /\ \E f \in brokerSubs : FilterMatches(f, topic)
    /\ msgs' = msgs + 1
    /\ got' = [s \in SubIds |-> IF s \in SubReceivers(topic) THEN got[s] + 1 ELSE got[s]]
    /\ UNCHANGED <<nextSub, subs, wire, listeners, brokerSubs>>
    /\ SubscriptionOnly

\* the patterns subscribed to: the telemetry of every application, and that
\* of one application
SubPatterns == { Append(TELEMETRY_METRICS_TOPIC, "+"), AppMetricsTopic("youtube") }
PublishedTopics == { AppMetricsTopic(a) : a \in AppIds }

NextSubscribe ==
    \/ \E t \in SubPatterns : Subscribe(t)
    \/ SubscribeGranted
    \/ \E s \in SubIds : End(s)
    \/ Unsubscribed
    \/ \E t \in PublishedTopics : Deliver(t)

SpecSubscribe == Init /\ [][NextSubscribe]_vars

(* ============================ connect() =============================== *)
\* every step of connect() leaves the rest of the program alone
ConnectOnly ==
    UNCHANGED <<reqVars, listeners, brokerSubs, handlerVars, telVars, env, capCall, subVars, ended, bridge, life>>

\* the errors the mqtt client reports with an 'error' event
ConnectionErrors ==
    { << <<"name", "Error">>, <<"message", "connect ECONNREFUSED">> >>,
      << <<"name", "Error">>, <<"message", "Connection refused: Not authorized">> >> }

\* connect(uri, options): mqtt.connect is called and the 'error' and
\* 'connect' listeners are registered
Connect(onConnected) ==
    /\ ~ conn.started
    /\ conn' = [conn EXCEPT !.started = TRUE, !.onConnected = onConnected,
                            !.errorListener = TRUE]
    /\ ConnectOnly

\* the first 'connect' event resolves the promise with a new Client and
\* calls onConnected; every 'connect' event sets initialized
OnConnect(c) ==
    IF ~ c.initialized
    THEN [c EXCEPT !.connected = TRUE, !.errorListener = FALSE,
                   !.promise = Settle(c.promise, Resolved(<<"Client", c.clients + 1>>)),
                   !.clients = c.clients + 1,
                   !.onConnectedCalls = IF c.onConnected THEN c.onConnectedCalls + 1
                                        ELSE c.onConnectedCalls,
                   !.initialized = TRUE]
    ELSE c

\* the mqtt client emits 'connect': after the first handshake and after
\* every later reconnect
ConnectEvent ==
    /\ conn.started /\ conn.ending = "none"
    /\ conn.connects < MaxEvents
    /\ conn' = [OnConnect(conn) EXCEPT !.connects = conn.connects + 1]
    /\ ConnectOnly

\* onError(error): before the first connect it ends the mqtt client and
\* rejects once that has finished; it always removes itself
OnError(c, error) ==
    IF ~ c.connected /\ ~ c.initialized
    THEN [c EXCEPT !.ending = "pending", !.error = error, !.errorListener = FALSE]
    ELSE [c EXCEPT !.errorListener = FALSE]

\* the mqtt client emits 'error'; without a listener the event is an
\* unhandled 'error' event
ErrorEvent(error) ==
    /\ conn.started /\ conn.ending = "none"
    /\ conn.errors < MaxEvents
    /\ conn' = [(IF conn.errorListener THEN OnError(conn, error)
                 ELSE [conn EXCEPT !.unhandled = conn.unhandled + 1])
                EXCEPT !.errors = conn.errors + 1]
    /\ ConnectOnly

\* mqttClient.end() called by onError has finished: .finally rejects
EndFinished ==
    /\ conn.ending = "pending"
    /\ conn' = [conn EXCEPT !.ending = "done",
                            !.promise = Settle(conn.promise, Rejected(conn.error))]
    /\ ConnectOnly

\* the connect timeout handed to mqtt.connect elapses before any handshake:
\* connect() arms no timer of its own and acts on 'error' and 'connect'
\* events only; the mqtt client either reports the timeout with an 'error'
\* event or drops the stream and tries again without one
ConnectTimeout(emitsError) ==
    /\ conn.started /\ conn.ending = "none"
    /\ conn.connects = 0 /\ ~ conn.timedOut
    /\ conn.errors < MaxEvents
    /\ conn' = [(IF emitsError /\ conn.errorListener
                 THEN [OnError(conn, << <<"name", "Error">>, <<"message", "connack timeout">> >>)
                          EXCEPT !.errors = conn.errors + 1]
                 ELSE IF emitsError
                 THEN [conn EXCEPT !.unhandled = conn.unhandled + 1, !.errors = conn.errors + 1]
                 ELSE conn)
                EXCEPT !.timedOut = TRUE]
    /\ ConnectOnly

NextConnect ==
    \/ \E f \in BOOLEAN : Connect(f)
    \/ ConnectEvent
    \/ \E e \in ConnectionErrors : ErrorEvent(e)
    \/ EndFinished
    \/ \E b \in BOOLEAN : ConnectTimeout(b)

SpecConnect == Init /\ [][NextConnect]_vars

(* ============== failures with a status field of any value ============= *)
\* what a handler can throw, by its status field: none, 0, a 2xx number or
\* a 4xx number (ErrorWithStatus takes any number, and any thrown object
\* with a status field is treated alike)
StatusErrors ==
    { << <<"name", "Error">>, <<"message", "boom">> >> }
    \cup { << <<"name", "ErrorWithStatus">>, <<"message", "failed">>, <<"status", n>> >> :
              n \in {0, 200, 204, 404} }

NextFailure ==
    \/ \E p \in Topics : Handle(p)
    \/ \E p \in Topics : HandleSubscribeOk(p)
    \/ \E t \in Topics : Inbound(t, Stringify(<< <<"appId", "youtube">> >>), TRUE)
    \/ \E i \in TaskIds, e \in StatusErrors : HandlerThrows(i, e)
    \/ \E i \in TaskIds : ResponsePublishOk(i)
    \/ \E i \in TaskIds : ResponsePublishFails(i)

SpecFailure == Init /\ [][NextFailure]_vars

(* ============== telemetry starts behind the dispatcher ================ *)
\* what the producer can reject with: an Error, or nothing at all
\* (Promise.reject() or `throw undefined`)
ProducerErrors == { << <<"name", "Error">>, <<"message", "top failed">> >>, NullValue }

\* an inbound request under a prefix whose handler is startDeviceTelemetry:
\* the handle() listener invokes the handler in the same step, so the i-th
\* request makes the i-th telemetry call
InboundStart(prefix) ==
    /\ nextCall = nextTask
    /\ Dispatch(prefix, RequestTopic(prefix, uuidv4(100 + nextTask)),
                RequestTopic(prefix, uuidv4(100 + nextTask)),
                Stringify(<< <<"frequency", 1000>> >>))
    /\ nextCall' = nextCall + 1
    /\ StartDeviceTelemetryImpl(nextCall + 1, ValidFrequency)
    /\ UNCHANGED <<telemetry, timers, inflight, metrics, ticks>>
    /\ UNCHANGED <<reqVars, restVars>>

\* `await handler(msg)` fulfils with the response of the start
StartAnswered(i) ==
    /\ call[i].pc = "returned"
    /\ HandlerReturns(i, call[i].response)

\* `await handler(msg)` rejects with what the producer or the publish of
\* the start rejected with
StartFailed(i, err) ==
    /\ call[i].pc = "threw"
    /\ HandlerThrows(i, err)

NextStarts ==
    \/ \E p \in Topics : Handle(p)
    \/ \E p \in Topics : HandleSubscribeOk(p)
    \/ \E p \in Topics : InboundStart(p)
    \/ \E c \in TaskIds : ProducerReturns(c)
    \/ \E c \in TaskIds : ProducerFails(c)
    \/ \E c \in TaskIds : MetricsPublishOk(c)
    \/ \E c \in TaskIds : MetricsPublishFails(c)
    \/ \E i \in TaskIds : StartAnswered(i)
    \/ \E i \in TaskIds, e \in ProducerErrors : StartFailed(i, e)
    \/ \E i \in TaskIds : ResponsePublishOk(i)
    \/ \E i \in TaskIds : ResponsePublishFails(i)

SpecStarts == Init /\ [][NextStarts]_vars

(* ================== the adb bridge: application requests ============== *)
BridgeOnly ==
    UNCHANGED <<reqVars, listeners, brokerSubs, handlerVars, telVars, env, capCall, subVars, conn, ended, life>>

\* data.appId as a request can carry it
AppIdInputs ==
    { JsString("youtube"), JsString("YouTube"), JsString("netflix"), JsString("hulu"),
      JsUndefined, JsInt(7) }
\* String.prototype.toLowerCase on the appIds above
ToLowerCase(t) == IF t = "YouTube" THEN "youtube" ELSE t
\* this.appMap[id]
Lookup(m, id) == IF id \in DOMAIN m THEN m[id] ELSE NoEntry
\* entry.intent and entry.package are set: they are undefined for a missing
\* entry and for an array of candidates
IsImpl(e) == ~ e.isArray /\ e.impls # <<>>

LaunchAppIdError == <<"'appId' must be set as the application id to launch">>
ExitAppIdError == <<"'appId' must be set as the application id to exit">>
QueryAppIdError == <<"'appId' must be set as the application id to query">>
NotFoundError(id) == <<"Couldn't find data for app", id, "in config file">>
\* e.message of a failed adb command
AdbError == <<"device offline">>

\* AndroidApplicationStatus as adb.status reports it, and a failing adb.status
AdbStatuses == { "Running", "Stopped", "Other" }
\* adbAppStatusToDabAppState
adbAppStatusToDabAppState(status) ==
    IF status = "Running" THEN "FOREGROUND"
    ELSE IF status = "Stopped" THEN "STOPPED" ELSE "BACKGROUND"
WithState(state) == dabResponse(200, <<>>) \o << <<"state", state>> >>

BridgeReturns(op, appId, outcome) ==
    bridge' = [bridge EXCEPT !.last = [op |-> op, appId |-> appId,
                                       response |-> outcome.response,
                                       actions |-> outcome.actions]]
Outcome(response, actions) == [response |-> response, actions |-> actions]

\* data.parameters: absent, an array, or a string
LaunchParams == { "none", "array", "string" }
LaunchIntent(impl, parameters) ==
    IF parameters = "array"
    THEN impl.intent \o impl.optionsPrefix \o << <<"--es">>, <<"x">> >>
    ELSE IF parameters = "string"
    THEN [impl.intent EXCEPT ![Len(impl.intent)] = @ \o <<"?v=1">>]
    ELSE impl.intent

\* launchApp(data); startOk: adb.start fulfils
launchApp(appId, parameters, startOk) ==
    LET id == ToLowerCase(appId.str)
        e == Lookup(bridge.appMap, id)
    IN IF appId.type # "string" THEN Outcome(dabResponse(400, LaunchAppIdError), <<>>)
       ELSE IF ~ IsImpl(e) THEN Outcome(dabResponse(404, NotFoundError(id)), <<>>)
       ELSE Outcome(IF startOk THEN dabResponse(200, <<>>) ELSE dabResponse(500, AdbError),
                    << <<"start", LaunchIntent(e.impls[1], parameters)>> >>)

LaunchApp(appId, parameters, startOk) ==
    /\ BridgeReturns("launchApp", appId, launchApp(appId, parameters, startOk))
    /\ BridgeOnly

\* mutant: a forced exit always stops the app
mustStopAlways(status) == TRUE
\* if (appStatus !== AndroidApplicationStatus.Stopped)
mustStop(status) == status # "Stopped"

\* exitApp(data); status: what adb.status yields ("fails": it rejects);
\* backgroundOk, stopOk: adb.backgroundApp, adb.stop fulfil
exitApp(appId, force, status, backgroundOk, stopOk) ==
    LET id == ToLowerCase(appId.str)
        e == Lookup(bridge.appMap, id)
        pkg == << e.impls[1].package >>
        Failed == dabResponse(500, AdbError)
    IN IF appId.type # "string" THEN Outcome(dabResponse(400, ExitAppIdError), <<>>)
       ELSE IF ~ IsImpl(e) THEN Outcome(dabResponse(404, NotFoundError(id)), <<>>)
       ELSE IF status = "fails" THEN Outcome(Failed, << <<"status", pkg>> >>)
       ELSE IF force
       THEN (IF mustStop(status)
             THEN Outcome(IF stopOk THEN WithState("STOPPED") ELSE Failed,
                          << <<"status", pkg>>, <<"stop", pkg>> >>)
             ELSE Outcome(WithState("STOPPED"), << <<"status", pkg>> >>))
       ELSE IF status = "Running"
       THEN (IF backgroundOk
             THEN Outcome(WithState("BACKGROUND"),
                          << <<"status", pkg>>, <<"backgroundApp", pkg>> >>)
             ELSE Outcome(IF stopOk THEN WithState("STOPPED") ELSE Failed,
                          << <<"status", pkg>>, <<"backgroundApp", pkg>>, <<"stop", pkg>> >>))
       ELSE Outcome(WithState(adbAppStatusToDabAppState(status)), << <<"status", pkg>> >>)

ExitApp(appId, force, status, backgroundOk, stopOk) ==
    /\ BridgeReturns("exitApp", appId, exitApp(appId, force, status, backgroundOk, stopOk))
    /\ BridgeOnly

\* getAppState(data)
getAppState(appId, status) ==
    LET id == ToLowerCase(appId.str)
        e == Lookup(bridge.appMap, id)
        pkg == << e.impls[1].package >>
    IN IF appId.type # "string" THEN Outcome(dabResponse(400, QueryAppIdError), <<>>)
       ELSE IF ~ IsImpl(e) THEN Outcome(dabResponse(404, NotFoundError(id)), <<>>)
       ELSE Outcome(IF status = "fails" THEN dabResponse(500, AdbError)
                    ELSE WithState(adbAppStatusToDabAppState(status)),
                    << <<"status", pkg>> >>)

GetAppState(appId, status) ==
    /\ BridgeReturns("getAppState", appId, getAppState(appId, status))
    /\ BridgeOnly

\* the implementation listApps settles on for an entry: the first candidate
\* of an array whose package is installed, or the entry itself if installed
FirstInstalled(impls, packageArr) ==
    LET found == { k \in DOMAIN impls : impls[k].package \in packageArr }
    IN IF found = {} THEN <<>>
       ELSE << impls[CHOOSE k \in found : \A j \in found : k <= j] >>
\* this.appMap[appId] = implObj
ResolveEntry(e, packageArr) ==
    IF e.isArray /\ FirstInstalled(e.impls, packageArr) # <<>>
    THEN [isArray |-> FALSE, impls |-> FirstInstalled(e.impls, packageArr)]
    ELSE e
RECURSIVE Applications(_, _, _)
Applications(m, packageArr, i) ==
    IF i > Len(AppKeys) THEN <<>>
    ELSE LET impl == FirstInstalled(m[AppKeys[i]].impls, packageArr)
         IN (IF impl = <<>> THEN <<>> ELSE << <<AppKeys[i], impl[1].package>> >>)
            \o Applications(m, packageArr, i + 1)

\* listApps(); packageArr: what adb.getPackages yields; ok: it fulfils
ListApps(packageArr, ok) ==
    /\ bridge' = [bridge EXCEPT
           !.appMap = IF ok THEN [a \in DOMAIN @ |-> ResolveEntry(@[a], packageArr)] ELSE @,
           !.last = [op |-> "listApps", appId |-> JsUndefined,
                     response |-> IF ok
                                  THEN dabResponse(200, <<>>)
                                       \o << <<"applications",
                                               Applications(bridge.appMap, packageArr, 1)>> >>
                                  ELSE dabResponse(500, AdbError),
                     actions |-> << <<"getPackages", <<>> >> >>]]
    /\ BridgeOnly

NextApps ==
    \/ \E a \in AppIdInputs, p \in LaunchParams, ok \in BOOLEAN : LaunchApp(a, p, ok)
    \/ \E a \in AppIdInputs, force \in BOOLEAN, st \in AdbStatuses \cup {"fails"},
          bg \in BOOLEAN, ok \in BOOLEAN : ExitApp(a, force, st, bg, ok)
    \/ \E a \in AppIdInputs, st \in AdbStatuses \cup {"fails"} : GetAppState(a, st)
    \/ \E pk \in SUBSET Packages, ok \in BOOLEAN : ListApps(pk, ok)

SpecApps == Init /\ [][NextApps]_vars

(* ================== init() and stop() of the bridge =================== *)
DAB_VERSION_TOPIC == <<"dab", "version">>
DEVICE_INFO_TOPIC == <<"dab", "device", "info">>
DAB_MESSAGES == <<"dab", "messages">>

\* every step of init() and stop() leaves the rest of the program alone
LifeOnly ==
    UNCHANGED <<reqVars, listeners, brokerSubs, handlerVars, telVars, env, capCall, subVars, conn, ended, bridge>>

\* Client.DEFAULT_PUBLISH_OPTIONS.retain
DefaultRetain == FALSE
\* a publish call made by init() or stop(), as it goes on the wire
Pub(by, topic, raw, retain) == [by |-> by, topic |-> topic, raw |-> raw, retain |-> retain]
\* this.client.publish(topic, msg): no options, so the defaults apply
ClientPublish(by, topic, payload) == Pub(by, topic, Stringify(payload), DefaultRetain)
\* this.client.publishRetained(topic, msg)
PublishRetained(by, topic, payload) == Pub(by, topic, Stringify(payload), TRUE)
\* this.client.clearRetained(topic): an empty retained message
ClearRetained(by, topic) == Pub(by, topic, EmptyBuf, TRUE)
\* notify(level, message)
Notify(by, level, message) ==
    ClientPublish(by, DAB_MESSAGES,
                  << <<"timestamp", 0>>, <<"level", level>>, <<"message", message>> >>)

\* version()
Version == << <<"status", 200>>, <<"versions", "2.0">> >>
\* what deviceInfo() fulfils with: the default of the base class, or a
\* binding's description of the device
DeviceInfos ==
    { << <<"status", 501>>, <<"error", "Device info not implemented">> >>,
      << <<"status", 200>>, <<"error", "">>, <<"model", "tv">> >> }

\* init(uri) up to `await this.client.init(uri)`
BridgeInit ==
    /\ life.initPc = "none"
    /\ life' = [life EXCEPT !.initPc = "connecting"]
    /\ LifeOnly

\* client.init(uri) fulfils: the client is connected; the array handed to
\* Promise.all is built: publishRetained(version) is called, then
\* `await this.deviceInfo()` suspends
ClientInitOk ==
    /\ life.initPc = "connecting"
    /\ life' = [life EXCEPT !.connection = "open", !.initPc = "deviceInfo",
                            !.out = Append(@, PublishRetained("init", DAB_VERSION_TOPIC, Version))]
    /\ LifeOnly

\* client.init(uri) rejects: init() rejects
ClientInitFails ==
    /\ life.initPc = "connecting"
    /\ life' = [life EXCEPT !.initPc = "threw"]
    /\ LifeOnly

\* deviceInfo() fulfils: publishRetained(device info) and notify are called
\* and Promise.all is awaited (it rejects at once if the version publish has
\* failed already)
DeviceInfoReturns(info) ==
    /\ life.initPc = "deviceInfo"
    /\ life' = [life EXCEPT
                   !.out = @ \o << PublishRetained("init", DEVICE_INFO_TOPIC, info),
                                   Notify("init", "info", "DAB service is online") >>,
                   !.initPc = IF life.initFailed THEN "threw" ELSE "publishing"]
    /\ LifeOnly

\* deviceInfo() rejects: init() rejects
DeviceInfoFails ==
    /\ life.initPc = "deviceInfo"
    /\ life' = [life EXCEPT !.initPc = "threw"]
    /\ LifeOnly

\* mutant: stop() does not clear the version topic
StopPublishesInfoOnly ==
    << Notify("stop", "warn", "DAB service is shutting down"),
       ClearRetained("stop", DEVICE_INFO_TOPIC) >>
\* the calls in the array stop() hands to Promise.all
StopPublishes ==
    << Notify("stop", "warn", "DAB service is shutting down"),
       ClearRetained("stop", DEVICE_INFO_TOPIC),
       ClearRetained("stop", DAB_VERSION_TOPIC) >>

\* stop(), called once init() has returned or thrown with the client
\* connected, up to `await Promise.all`
BridgeStop ==
    /\ life.initPc \in {"returned", "threw"}
    /\ life.connection = "open"
    /\ life.stopPc = "none"
    /\ life' = [life EXCEPT !.out = @ \o StopPublishes, !.stopPc = "publishing"]
    /\ LifeOnly

\* the oldest publish on the wire is acknowledged by the broker (ok) or
\* fails; a retained message is stored, an empty one clears the topic;
\* Promise.all of the caller rejects on a failure and fulfils when all its
\* publishes are through; stop() then calls client.stop()
PublishHandled(ok) ==
    /\ life.out # <<>>
    /\ LET p == Head(life.out)
           rest == Tail(life.out)
           Left(by) == \E i \in DOMAIN rest : rest[i].by = by
       IN life' = [life EXCEPT
              !.out = rest,
              !.handled = @ \cup {[pub |-> p, ok |-> ok]},
              !.retained = IF ok /\ p.retain
                           THEN (IF p.raw = EmptyBuf THEN @ \ {p.topic} ELSE @ \cup {p.topic})
                           ELSE @,
              !.initFailed = @ \/ (p.by = "init" /\ ~ ok),
              !.initPc = IF p.by = "init" /\ @ = "publishing"
                         THEN (IF ~ ok THEN "threw" ELSE IF Left("init") THEN @ ELSE "returned")
                         ELSE @,
              !.stopPc = IF p.by = "stop" /\ @ = "publishing"
                         THEN (IF ~ ok THEN "threw" ELSE IF Left("stop") THEN @ ELSE "stopping")
                         ELSE @]
    /\ LifeOnly

\* client.stop() fulfils: the connection is closed and stop() returns
ClientStopped ==
    /\ life.stopPc = "stopping"
    /\ life' = [life EXCEPT !.connection = "closed", !.stopPc = "returned"]
    /\ LifeOnly

NextLife ==
    \/ BridgeInit
    \/ ClientInitOk
    \/ ClientInitFails
    \/ \E info \in DeviceInfos : DeviceInfoReturns(info)
    \/ DeviceInfoFails
    \/ BridgeStop
    \/ \E ok \in BOOLEAN : PublishHandled(ok)
    \/ ClientStopped

SpecLife == Init /\ [][NextLife]_vars

(* ================== the adb bridge: restartDevice ===================== *)
\* the two notifications of handleReboot
RebootingNotice(i) == Notify(i, "warn", "Device is rebooting and will be temporarily offline")
BackOnlineNotice(i) == Notify(i, "info", "Device is back online following reboot")
\* one entry of the record of what the background task did: a publish handed
\* to the client, a publish fulfilled, adb.reboot issued or fulfilled, or
\* logger.error(err)
RestartEvent(i, ev, pub) == [id |-> i, ev |-> ev, pub |-> pub]

\* mutant: handleReboot goes on after a rejected await
handleRebootGoesOn(pc, ok) ==
    CASE pc = "notifying" -> "rebooting"
      [] pc = "rebooting" -> "announcing"
      [] OTHER -> "done"
\* handleReboot after one of its three awaits settles: a rejection leaves the
\* function and reaches the catch of restartDevice
handleReboot(pc, ok) ==
    IF ~ ok THEN "failed"
    ELSE CASE pc = "notifying" -> "rebooting"
           [] pc = "rebooting" -> "announcing"
           [] OTHER -> "done"

\* what a fulfilled await of handleReboot has brought about
RestartFulfilled(i, from) ==
    CASE from = "notifying" -> << RestartEvent(i, "published", <<RebootingNotice(i)>>) >>
      [] from = "rebooting" -> << RestartEvent(i, "rebooted", <<>>) >>
      [] OTHER -> << RestartEvent(i, "published", <<BackOnlineNotice(i)>>) >>
\* what the background task does on reaching a position: the next call of
\* handleReboot, or logger.error(err) in the catch of restartDevice
RestartEntered(i, pc) ==
    CASE pc = "rebooting" -> << RestartEvent(i, "reboot", <<>>) >>
      [] pc = "announcing" -> << RestartEvent(i, "publish", <<BackOnlineNotice(i)>>) >>
      [] pc = "failed" -> << RestartEvent(i, "error", <<>>) >>
      [] OTHER -> <<>>

\* restartDevice(): handleReboot() runs up to its first await, which hands
\* the warn notification to the client; the 202 is returned at once
RestartDevice(i) ==
    /\ bridge.restart[i].pc = "none"
    /\ \A j \in RestartIds : j < i => bridge.restart[j].pc # "none"
    /\ bridge' = [bridge EXCEPT
           !.restart[i] = [pc |-> "notifying", response |-> dabResponse(202, <<>>)],
           !.log = Append(@, RestartEvent(i, "publish", <<RebootingNotice(i)>>))]
    /\ BridgeOnly

\* the await of handleReboot at position from settles
RestartSettles(i, from, ok) ==
    /\ bridge.restart[i].pc = from
    /\ LET pc == handleReboot(from, ok)
       IN bridge' = [bridge EXCEPT !.restart[i].pc = pc,
                                   !.log = @ \o (IF ok THEN RestartFulfilled(i, from) ELSE <<>>)
                                              \o RestartEntered(i, pc)]
    /\ BridgeOnly

\* await this.notify("warn", ...) settles
NotifySettles(i, ok) == RestartSettles(i, "notifying", ok)
\* await this.adb.reboot() settles
RebootSettles(i, ok) == RestartSettles(i, "rebooting", ok)
\* await this.notify("info", ...) settles
AnnounceSettles(i, ok) == RestartSettles(i, "announcing", ok)

NextRestart ==
    \/ \E i \in RestartIds : RestartDevice(i)
    \/ \E i \in RestartIds, ok \in BOOLEAN : NotifySettles(i, ok)
    \/ \E i \in RestartIds, ok \in BOOLEAN : RebootSettles(i, ok)
    \/ \E i \in RestartIds, ok \in BOOLEAN : AnnounceSettles(i, ok)

SpecRestart == Init /\ [][NextRestart]_vars

(* ============== Client.end() among requests and sessions ============== *)
\* Client.end(): every stored handler subscription is ended (there is none
\* when handle() was never called), then the connection is closed and the
\* broker drops its subscriptions; no timer and no promise of request() and
\* no timer of a telemetry session is touched
ClientEnd ==
    /\ ~ ended
    /\ handlerSubscriptions = {}
    /\ ended' = TRUE
    /\ brokerSubs' = {}
    /\ UNCHANGED <<reqVars, listeners, handlerVars, telVars, env, capCall, subVars, conn, bridge, life>>

\* requests in flight on one topic, or telemetry sessions of the device and
\* of the application "device", with Client.end() at any moment; a closed
\* connection grants no subscription, accepts no publish and delivers no
\* message. request() and the telemetry methods share no variable, so a
\* behaviour with steps of both is an interleaving of a behaviour of each:
\* the steps of one group are taken while the other group has not started.
NextCancel ==
    \/ nextCall = 0 /\ ~ ended /\ Request(ConcurrentTopic, <<>>, 0)
    \/ \E r \in ReqIds : nextCall = 0 /\ ~ ended /\ SubscribeOk(r)
    \/ \E r \in ReqIds : nextCall = 0 /\ ~ ended /\ PublishOk(r)
    \/ \E r \in ReqIds : nextCall = 0 /\ PublishFails(r)
    \/ \E r \in ReqIds : nextCall = 0 /\ TimerFires(r)
    \/ \E r \in ReqIds, raw \in ConcurrentRaws :
           nextCall = 0 /\ ~ ended /\ responses[r] = 0 /\ Respond(r, raw)
    \/ \E r \in ReqIds : nextCall = 0 /\ RunEnd(r)
    \/ \E r \in ReqIds : nextCall = 0 /\ UnsubscribeDone(r)
    \/ ClientEnd
    \/ nextId = 0 /\ nextCall < MaxKeyCalls /\ StartDeviceTelemetry(ValidFrequency)
    \/ nextId = 0 /\ nextCall < MaxKeyCalls
          /\ StartAppTelemetry(JsString("device"), ValidFrequency)
    \/ nextId = 0 /\ nextCall < MaxKeyCalls /\ StopDeviceTelemetry
    \/ nextId = 0 /\ nextCall < MaxKeyCalls /\ StopAppTelemetry(JsString("device"))
    \/ \E c \in CallIds : nextId = 0 /\ ProducerReturns(c)
    \/ \E c \in CallIds : nextId = 0 /\ ProducerFails(c)
    \/ \E c \in CallIds : nextId = 0 /\ MetricsPublishOk(c)
    \/ \E c \in CallIds : nextId = 0 /\ MetricsPublishFails(c)
    \/ \E c \in CallIds : nextId = 0 /\ Tick(c)
    \/ \E e \in inflight : nextId = 0 /\ TickProducerReturns(e)
    \/ \E e \in inflight : nextId = 0 /\ TickProducerFails(e)

SpecCancel == Init /\ [][NextCancel]_vars

(* ====================== request(): properties ========================= *)
HasListener(r) == [event |-> ResponseEvent(r), cb |-> ReqCb(r)] \in listeners
FirstIs(r, kind) == first[r] # <<>> /\ first[r][1] = kind
FirstMessage(r) == first[r][2]
Is2xx(msg) == HasKey(msg, "status") /\ Get(msg, "status") >= 200 /\ Get(msg, "status") <= 299
Is3xxUp(msg) == HasKey(msg, "status") /\ Get(msg, "status") >= 300
\* nothing of call r is still running or waiting to run
Idle(r) ==
    /\ subCall[r] # "sent" /\ pubCall[r] # "sent" /\ timer[r] # "armed"
    /\ ~ (endQueue[r] > 0 /\ subCall[r] = "ok")
    /\ unsubPending[r] = 0

\* C1: when a message with status in [200,299] is delivered on the response
\* topic of a pending call (so before its timer fires), the promise is resolved
\* with exactly that payload and stays so, the timer is cancelled, and the
\* response listener is gone once the queued end() has run.
C1_Resolves2xx ==
    /\ [] (\A r \in ReqIds : FirstIs(r, "message") /\ Is2xx(FirstMessage(r)) =>
              /\ promise[r] = Resolved(FirstMessage(r))
              /\ timer[r] = "cleared"
              /\ (endQueue[r] = 0 => ~ HasListener(r)))
    /\ [][\A r \in ReqIds : promise[r].state = "resolved" => promise'[r] = promise[r]]_vars

C1_Witness ==
    \E r \in ReqIds :
        /\ FirstIs(r, "message") /\ Is2xx(FirstMessage(r))
        /\ promise[r].state = "resolved" /\ responses[r] = 2
        /\ endQueue[r] = 0 /\ ~ HasListener(r)

\* C2: a call on whose response topic no message is delivered and whose timer
\* is the first thing to end it is rejected with a TimeoutError (status 408,
\* the message names the topic and the timeout used); once its teardown has
\* completed there is no listener and no broker subscription for the
\* response topic, as before the call.
TeardownComplete(r) == subCall[r] = "ok" /\ endQueue[r] = 0 /\ unsubPending[r] = 0
C2_TimeoutRejects ==
    \A r \in ReqIds : FirstIs(r, "timer") /\ responses[r] = 0 =>
        /\ promise[r].state = "rejected"
        /\ Get(promise[r].value, "name") = "TimeoutError"
        /\ Get(promise[r].value, "status") = 408
        /\ Get(promise[r].value, "message")[2] = req[r].topic
        /\ Get(promise[r].value, "message")[4] = req[r].timeout
        /\ req[r].timeout \in {5000, 100}
        /\ timer[r] = "fired"
        /\ (TeardownComplete(r) =>
               /\ ~ \E l \in listeners : EventMatches(l.event, ResponseFilter(r))
               /\ ResponseFilter(r) \notin brokerSubs)

C2_Witness ==
    \E r \in ReqIds :
        /\ FirstIs(r, "timer") /\ responses[r] = 0 /\ pubCall[r] = "ok"
        /\ TeardownComplete(r) /\ unsubIssued[r] = 1

\* C3: with several calls in flight on one topic, the promise of a call
\* changes only in a step that delivers a message on that call's own response
\* topic, fires its own timer or fails its own publish.
OwnEvent(a) ==
    \/ \E raw \in ConcurrentRaws : Respond(a, raw)
    \/ TimerFires(a)
    \/ PublishFails(a)
C3_NoCrossDelivery ==
    [][\A a \in ReqIds : promise'[a] # promise[a] => OwnEvent(a)]_vars

C3_Witness ==
    \E a, b \in ReqIds :
        /\ a < b /\ req[a].topic = req[b].topic
        /\ pubCall[a] = "ok" /\ subCall[a] = "ok" /\ HasListener(a)
        /\ promise[a].state = "pending"
        /\ promise[b].state = "resolved" /\ FirstIs(b, "message")

\* C4: the first terminal event of a call (a 2xx response, a response with
\* status >= 300, its timer, the failure of its publish) decides the outcome,
\* and no later event changes a settled promise.
OutcomeOfFirst(r) ==
    IF first[r] = <<>> THEN Pending
    ELSE IF first[r][1] = "timer" THEN Rejected(TimeoutError(req[r].topic, req[r].timeout))
    ELSE IF first[r][1] = "publishFailed" THEN Rejected(PublishError)
    ELSE IF Is3xxUp(FirstMessage(r)) THEN Rejected(FirstMessage(r))
    ELSE Resolved(FirstMessage(r))
C4_FirstWins ==
    /\ [] (\A r \in ReqIds : promise[r] = OutcomeOfFirst(r))
    /\ [][\A r \in ReqIds : promise[r].state # "pending" => promise'[r] = promise[r]]_vars

C4_Witness ==
    \E r \in ReqIds :
        \/ FirstIs(r, "publishFailed") /\ timer[r] = "fired"
        \/ FirstIs(r, "message") /\ responses[r] = 2
        \/ FirstIs(r, "timer") /\ responses[r] >= 1
        \/ FirstIs(r, "message") /\ pubCall[r] = "ok" /\ timer[r] = "cleared" /\ endQueue[r] = 0

\* C5: when the request message of a pending call reaches the broker, the
\* response listener is registered and the broker holds the subscription to
\* the response topic.
C5_SubscribedBeforePublish ==
    [][\A r \in ReqIds : PublishOk(r) /\ promise[r].state = "pending" =>
           HasListener(r) /\ ResponseFilter(r) \in brokerSubs]_vars

\* C6: when the first message delivered on the response topic of a pending
\* call has status >= 300, the promise is rejected with exactly that payload,
\* the timer is cancelled, and the listener is gone once end() has run.
C6_RejectsWithPayload ==
    \A r \in ReqIds : FirstIs(r, "message") /\ Is3xxUp(FirstMessage(r)) =>
        /\ promise[r] = Rejected(FirstMessage(r))
        /\ timer[r] = "cleared"
        /\ (endQueue[r] = 0 => ~ HasListener(r))

C6_Witness ==
    \E r \in ReqIds :
        /\ FirstIs(r, "message") /\ Is3xxUp(FirstMessage(r))
        /\ Get(FirstMessage(r), "status") = 300
        /\ promise[r].state = "rejected" /\ endQueue[r] = 0 /\ ~ HasListener(r)

\* C7: when the publish of a call fails before anything else ended the call,
\* the promise is rejected with the transport error, and once nothing of the
\* call is running any more the response listener is removed and the broker
\* subscription is gone.
C7_PublishFailureTearsDown ==
    \A r \in ReqIds : FirstIs(r, "publishFailed") =>
        /\ promise[r] = Rejected(PublishError)
        /\ (Idle(r) => ~ HasListener(r) /\ ResponseFilter(r) \notin brokerSubs)

\* C8: when the broker subscribe of a pending call fails, the promise is
\* rejected with the subscribe error.
C8_SubscribeFailureRejects ==
    [][\A r \in ReqIds : SubscribeFails(r) /\ promise[r].state = "pending" =>
           promise'[r] = Rejected(SubscribeError)]_vars

(* ======================= handle(): properties ========================= *)
HandlerFailed(i) == task[i].result # <<>> /\ task[i].result[1] = "threw"
HandlerSucceeded(i) == task[i].result # <<>> /\ task[i].result[1] = "returned"
Published(i) == ParseMessage(pubs[i][1].topic, pubs[i][1].raw)

\* C9: for every inbound request whose handler failed, exactly one message
\* has been published, on _response/<prefix>/<id>, of the form
\* {status, error, request} with status the failure's status field or 500 if
\* it has none, error the serialized failure and request the inbound payload;
\* the listener's promise rejects only if that publish itself failed.
C9_FailureEnvelopePublished ==
    \A i \in TaskIds : HandlerFailed(i) =>
        LET err == task[i].result[2] IN
        /\ Len(pubs[i]) = 1
        /\ pubs[i][1].topic = <<"_response">> \o task[i].requestTopic
        /\ Len(Published(i)) = 3
        /\ Published(i)[1][1] = "status"
        /\ Published(i)[1][2] = (IF HasKey(err, "status") THEN Get(err, "status") ELSE 500)
        /\ Published(i)[2] = <<"error", Stringify(err)>>
        /\ Published(i)[3] = <<"request", task[i].msg>>

\* C10: for every inbound request whose handler returned, exactly one message
\* has been published, on _response/<prefix>/<id>, and it carries the
\* returned value with the same fields in the same order; whatever the
\* outcome of the handler, the number of responses published for the request
\* is one.
C10_OneVerbatimResponse ==
    \A i \in TaskIds :
        /\ HandlerSucceeded(i) =>
              /\ pubs[i][1].topic = <<"_response">> \o task[i].requestTopic
              /\ Published(i) = task[i].result[2]
        /\ task[i].result # <<>> => Len(pubs[i]) = 1
        /\ Len(pubs[i]) <= 1

\* C11: an inbound message whose packet carries no request topic never gets
\* the handler invoked (its task is never running and has no handler result)
\* and never gets a response published; the listener's promise is rejected
\* with the FATAL error naming the prefix, and nothing changes that later.
NoRequestTopic(i) == task[i].state # "none" /\ task[i].requestTopic = <<>>
C11_NoTopicNoResponse ==
    /\ [] (\A i \in TaskIds : NoRequestTopic(i) =>
              /\ task[i].state = "rejected"
              /\ task[i].result = <<"fatal", FatalError(task[i].prefix)>>
              /\ Get(task[i].result[2], "message")[1] = "FATAL: Handler for topic"
              /\ pubs[i] = <<>>)
    /\ [][\A i \in TaskIds : NoRequestTopic(i) =>
              task'[i] = task[i] /\ pubs'[i] = pubs[i]]_vars

C11_Witness ==
    \E i, j \in TaskIds :
        /\ NoRequestTopic(i) /\ task[i].state = "rejected" /\ pubs[i] = <<>>
        /\ j > i /\ task[j].state = "done" /\ task[j].prefix = task[i].prefix

\* C12: a newly delivered request has its handler invoked at once whatever
\* the state of the earlier requests; a step of one request never touches the
\* response of another; requests have distinct request topics and every
\* response is published on _response/<own request topic>.  (That a later
\* request can be answered before an earlier one is the witness.)
Dispatched(i) == task[i].state # "none" /\ task[i].requestTopic # <<>>
C12_IndependentDispatch ==
    /\ [] (\A i \in TaskIds : \A k \in DOMAIN pubs[i] :
              pubs[i][k].topic = <<"_response">> \o task[i].requestTopic)
    /\ [] (\A i, j \in TaskIds : i # j /\ Dispatched(i) /\ Dispatched(j) =>
              task[i].requestTopic # task[j].requestTopic)
    /\ [][nextTask' # nextTask /\ task'[nextTask'].requestTopic # <<>> =>
              task'[nextTask'].state = "running"]_vars
    /\ [][\A i, j \in TaskIds : i # j /\ pubs'[i] # pubs[i] => pubs'[j] = pubs[j]]_vars

C12_Witness ==
    \E a, b \in TaskIds :
        /\ a < b /\ task[a].prefix = task[b].prefix
        /\ task[a].state = "running" /\ pubs[a] = <<>>
        /\ task[b].state = "done" /\ Len(pubs[b]) = 1
        /\ pubs[b][1].topic = <<"_response">> \o task[b].requestTopic

(* ====================== telemetry: properties ========================= *)
\* the key of the session a start call is about: the device, or an appId
KeyOf(rec) ==
    IF rec.op \in {"startDevice", "stopDevice"} THEN <<"device">> ELSE <<"app", rec.appId.str>>
SessionKey(c) == KeyOf(call[c])
SessionKeys == { <<"device">> } \cup { <<"app", a>> : a \in AppIds }
LiveTimers(key) == { c \in CallIds : timers[c] = "live" /\ SessionKey(c) = key }
SucceededRec(rec) == rec.pc = "returned" /\ Get(rec.response, "status") = 200
Failed400Rec(rec) ==
    /\ rec.pc = "returned" /\ Get(rec.response, "status") = 400
    /\ HasKey(rec.response, "error") /\ Get(rec.response, "error") # <<>>
IsStartRec(rec) == rec.op \in {"startDevice", "startApp"}
IsStopRec(rec) == rec.op \in {"stopDevice", "stopApp"}
Succeeded(c) == SucceededRec(call[c])
Failed400(c) == Failed400Rec(call[c])
IsStart(c) == IsStartRec(call[c])
IsStop(c) == IsStopRec(call[c])
\* the step is the arrival of a new call
Arrives == nextCall' = nextCall + 1

\* C13: in every reachable state each key has at most one live interval
\* timer, and every live timer is the one this.telemetry records for its key.
C13_OneTimerPerKey ==
    /\ \A key \in SessionKeys : Cardinality(LiveTimers(key)) <= 1
    /\ \A c \in CallIds : timers[c] = "live" => telemetry[Prop(c)] = c

\* C14: when a start for key K arrives while a session for K is running and
\* no stop for K has been requested, the call returns status 400 with an
\* error text, no timer is created by it (then or later), and the timers, the
\* session map and the record of the running session are left as they were.
NoStopYet(key) == \A c \in CallIds : ~ (IsStop(c) /\ SessionKey(c) = key)
C14_SecondStartRejected ==
    /\ [][\A key \in SessionKeys :
              ( /\ Arrives /\ IsStartRec(call'[nextCall']) /\ KeyOf(call'[nextCall']) = key
                /\ LiveTimers(key) # {} /\ NoStopYet(key) ) =>
              /\ Failed400Rec(call'[nextCall'])
              /\ timers' = timers /\ telemetry' = telemetry
              /\ \A a \in LiveTimers(key) : call'[a] = call[a]]_vars
    /\ [] (\A c \in CallIds : IsStart(c) /\ call[c].pc = "returned" /\ ~ Succeeded(c) =>
              timers[c] = "none")

C14_Witness ==
    \E a, b \in CallIds :
        /\ a < b /\ IsStart(a) /\ IsStart(b) /\ SessionKey(a) = SessionKey(b)
        /\ SessionKey(a) = <<"app", "youtube">>
        /\ Succeeded(a) /\ timers[a] = "live" /\ telemetry["youtube"] = a
        /\ Failed400(b) /\ timers[b] = "none"
        /\ \E m \in metrics : m.by = a /\ m.tick > 0

\* C15: a start whose response is produced only now was in flight when every
\* later call arrived; no stop of the same key that arrived meanwhile has
\* returned success when the start returns success.  (A stop runs to its
\* response in the step in which it arrives, so the start is always the
\* call that is in flight.)
ReturnsNow(c) == call[c].pc # "returned" /\ call'[c].pc = "returned"
C15_StartStopNotBoth ==
    [][\A s, t \in CallIds :
          ( /\ IsStart(s) /\ s < t /\ ReturnsNow(s) /\ SucceededRec(call'[s])
            /\ IsStop(t) /\ SessionKey(t) = SessionKey(s) ) =>
          ~ Succeeded(t)]_vars

\* C16: a start (device, through the bridge or not, or application) whose
\* frequency is not a positive integer returns status 400 with an error text
\* in the step in which it arrives, without invoking the producer, publishing
\* anything or touching the session map and the timers; the call never owns
\* a timer.
PositiveInteger(f) == f.type = "number" /\ f.integer /\ f.num > 0
StartsWith(f) ==
    \/ StartDeviceTelemetry(f)
    \/ BridgeStartDeviceTelemetry(f)
    \/ \E a \in AppIdValues : StartAppTelemetry(a, f)
C16_InvalidFrequencyRejected ==
    /\ [][\A f \in Frequencies : ~ PositiveInteger(f) /\ StartsWith(f) =>
              /\ Failed400Rec(call'[nextCall'])
              /\ invocations' = invocations /\ metrics' = metrics
              /\ telemetry' = telemetry /\ timers' = timers]_vars
    /\ [] (\A c \in CallIds : IsStart(c) /\ Failed400(c) => timers[c] = "none")

\* C17: a device start that has returned success has its immediate producer
\* value published, once, on the metrics topic (the publish precedes the
\* response) and reports the requested frequency; every firing of a device
\* timer invokes the producer once; every value a firing's producer yields is
\* published on the same metrics topic; and a device timer stops being live
\* only in a step in which a stop call returns success.
Immediate(c) == { m \in metrics : m.by = c /\ m.tick = 0 }
C17_DeviceStartPublishes ==
    /\ [] (\A c \in CallIds : call[c].op = "startDevice" /\ Succeeded(c) =>
              /\ Immediate(c) = {[topic |-> TELEMETRY_METRICS_TOPIC, payload |-> call[c].value,
                                  by |-> c, tick |-> 0]}
              /\ \E n \in 1 .. invocations : call[c].value = ProducerValue(n)
              /\ Get(call[c].response, "frequency") = call[c].frequency
              /\ timers[c] # "none")
    /\ [] (\A c \in CallIds : call[c].op = "startDevice" /\ call[c].pc \in {"producing", "threw"} =>
              timers[c] = "none")
    /\ [][\A c \in CallIds : call[c].op = "startDevice" /\ Tick(c) =>
              invocations' = invocations + 1 /\ Cardinality(inflight') = Cardinality(inflight) + 1]_vars
    /\ [][\A e \in inflight : TickProducerReturns(e) =>
              metrics' = metrics \cup {[topic |-> TELEMETRY_METRICS_TOPIC, payload |-> e.value,
                                        by |-> e.timer, tick |-> e.tick]}]_vars
    /\ [][\A c \in CallIds : timers[c] = "live" /\ timers'[c] # "live" =>
              Arrives /\ IsStopRec(call'[nextCall']) /\ SucceededRec(call'[nextCall'])]_vars

C17_Witness ==
    \E c \in CallIds :
        /\ call[c].op = "startDevice" /\ Succeeded(c) /\ timers[c] = "live"
        /\ call[c].frequency = JsInt(1000)
        /\ Cardinality(Immediate(c)) = 1
        /\ Cardinality({ m \in metrics : m.by = c /\ m.tick > 0
                                          /\ m.topic = TELEMETRY_METRICS_TOPIC }) = 2
        /\ invocations = 3

\* C18: every message published for an application session of appId A is on
\* <metrics topic>/A and carries the value some invocation of the producer
\* yielded; an application start that returned success has published such a
\* message of its own before.
C18_AppStartPublishes ==
    /\ \A m \in metrics : call[m.by].op = "startApp" =>
           /\ m.topic = TELEMETRY_METRICS_TOPIC \o <<call[m.by].appId.str>>
           /\ \E n \in 1 .. invocations : m.payload = ProducerValue(n)
    /\ \A c \in CallIds : call[c].op = "startApp" /\ Succeeded(c) => Immediate(c) # {}

\* C19: a stop for a key with no live session returns status 400 with an
\* error text and changes neither the session map nor any timer; a stop for
\* a key with a live recorded session returns success, clears that timer and
\* no other, and removes the key from the map.
C19_StopSession ==
    [][\A key \in SessionKeys :
          Arrives /\ IsStopRec(call'[nextCall']) /\ KeyOf(call'[nextCall']) = key =>
          IF LiveTimers(key) = {}
          THEN /\ Failed400Rec(call'[nextCall'])
               /\ telemetry' = telemetry /\ timers' = timers
          ELSE /\ SucceededRec(call'[nextCall'])
               /\ \A c \in CallIds :
                      timers'[c] = IF c \in LiveTimers(key) /\ telemetry[key[Len(key)]] = c
                                   THEN "cleared" ELSE timers[c]
               /\ telemetry'[key[Len(key)]] = 0]_vars

\* C20: the producer of a session is invoked after the start only by the
\* firings of its timer, a timer fires only while it is live, a cleared timer
\* never becomes live again, and when a stop for a key returns success every
\* timer that a successful start of that key made is cleared: after a
\* successful start and a successful stop the producer of that session is not
\* invoked again.
C20_NoInvocationAfterStop ==
    /\ [][\A key \in SessionKeys :
              ( /\ Arrives /\ IsStopRec(call'[nextCall']) /\ KeyOf(call'[nextCall']) = key
                /\ SucceededRec(call'[nextCall']) ) =>
              \A c \in LiveTimers(key) : Succeeded(c) /\ timers'[c] = "cleared"]_vars
    /\ [][\A c \in CallIds : timers[c] = "cleared" => timers'[c] = "cleared"]_vars
    /\ [][\A e \in inflight' \ inflight : timers[e.timer] = "live"]_vars

(* =================== status envelope: properties ====================== *)
\* C21: dabResponse(status, error) either throws, and then status is outside
\* 200..299 and no error text was given, or returns an envelope that carries
\* the status, and carries an error field exactly when status is outside
\* 200..299, the field being the text that was given.
InRange2xx(status) == status >= 200 /\ status <= 299
C21_StatusErrorPairing ==
    env.done =>
        IF Threw(env.result)
        THEN ~ InRange2xx(env.status) /\ env.error \in { <<>>, <<"">> }
        ELSE /\ Get(env.result, "status") = env.status
             /\ HasKey(env.result, "error") <=> ~ InRange2xx(env.status)
             /\ HasKey(env.result, "error") =>
                    Get(env.result, "error") = env.error /\ env.error \notin { <<>>, <<"">> }

C21_Witness ==
    /\ env.done /\ env.status = 299 /\ env.error = <<"Device telemetry not started">>
    /\ env.result = << <<"status", 299>> >>

(* ================ default capabilities: properties ==================== *)
\* C22: every call of a capability method that the base class leaves
\* unimplemented returns status 501 with a non-empty error text, and the step
\* changes neither the telemetry sessions (map, timers, producer invocations,
\* published metrics) nor the transport (listeners, broker subscriptions,
\* published responses, requests).
C22_DefaultsNotImplemented ==
    /\ [] (capCall.method # "none" =>
              /\ capCall.method \in Capabilities
              /\ Get(capCall.response, "status") = 501
              /\ HasKey(capCall.response, "error") /\ Get(capCall.response, "error") # ""
              /\ Len(capCall.response) = 2)
    /\ [][\A m \in Capabilities : CallDefault(m) =>
              /\ capCall'.method = m
              /\ telVars' = telVars
              /\ <<listeners, brokerSubs, pubs, reqVars>>' = <<listeners, brokerSubs, pubs, reqVars>>]_vars

C22_Witness ==
    /\ capCall.method = "startAppTelemetry"
    /\ Get(capCall.response, "error") = "App telemetry not implemented"
    /\ \E c \in CallIds : timers[c] = "live" /\ call[c].op = "startApp"
    /\ \E m \in metrics : m.tick > 0

(* ==================== inbound payloads: properties ==================== *)
IsParseFailure(msg) ==
    /\ HasKey(msg, "status") /\ Get(msg, "status") = 500
    /\ HasKey(msg, "error") /\ Get(msg, "error") = "failed to parse msg"

\* C23: when a non-empty payload that is not JSON is delivered on the
\* response topic of a pending call, the delivery completes (handleMessage
\* does not throw), the listener receives the envelope {status: 500, error:
\* "failed to parse msg", msg: <the raw text>, packet: <the packet>}, and the
\* call is rejected with exactly that envelope.
C23_ParseFailureRejects ==
    [][\A r \in ReqIds : Respond(r, Garbage) /\ promise[r].state = "pending" =>
          /\ first'[r][1] = "message"
          /\ IsParseFailure(first'[r][2])
          /\ Get(first'[r][2], "msg") = Garbage[2]
          /\ Get(first'[r][2], "packet") = <<"_response">> \o req[r].requestTopic
          /\ promise'[r] = Rejected(first'[r][2])
          /\ timer'[r] = "cleared"]_vars

C23_Witness ==
    \E r \in ReqIds :
        /\ FirstIs(r, "message") /\ IsParseFailure(FirstMessage(r))
        /\ Get(FirstMessage(r), "msg") = "not json"
        /\ promise[r] = Rejected(FirstMessage(r))
        /\ endQueue[r] = 0 /\ ~ HasListener(r)

\* C24: an inbound request with an empty payload reaches the handle()
\* listener, and through it the handler, as the synthetic error payload
\* {status: 500, error: "failed to parse msg", ...}, as an unparsable
\* payload does.
C24_EmptyPayloadIsParseFailure ==
    [][\A t \in Topics : \A raw \in {EmptyBuf, Garbage} : Inbound(t, raw, TRUE) =>
          IsParseFailure(task'[nextTask'].msg)]_vars

\* C30: a call that is resolved is resolved with an envelope that has a
\* status and whose status is in [200,299].
C30_ResolvesOnly2xx ==
    \A r \in ReqIds : promise[r].state = "resolved" => Is2xx(promise[r].value)

(* ====================== subscribe(): properties ======================= *)
OwnListener(s) == [event |-> convertPattern(subs[s].topic), cb |-> SubCb(s)]
\* the listeners registered for exactly the pattern of subscription s
ListenersFor(ls, s) == { l \in ls : l.event = convertPattern(subs[s].topic) }
UnsubscribeIssued(s) ==
    wire' = Append(wire, [kind |-> "unsubscribe", topic |-> subs[s].topic, by |-> s])

\* C25: end() of a subscription removes its own listener and no other; it
\* issues the broker unsubscribe for its pattern exactly when no listener for
\* that pattern remains afterwards, and issues nothing otherwise; and every
\* delivered message reaches every registered listener whose pattern matches
\* its topic.
C25_RefCountedSubscriptions ==
    /\ [][\A s \in SubIds : End(s) =>
              /\ listeners' = listeners \ {OwnListener(s)}
              /\ UnsubscribeIssued(s) <=> ListenersFor(listeners', s) = {}
              /\ ~ UnsubscribeIssued(s) => wire' = wire /\ brokerSubs' = brokerSubs]_vars
    /\ [][\A t \in PublishedTopics : Deliver(t) =>
              \A s \in SubIds :
                  OwnListener(s) \in listeners /\ FilterMatches(subs[s].topic, t) =>
                  got'[s] = got[s] + 1]_vars

\* C26: whenever no subscribe or unsubscribe call is outstanding, the broker
\* holds the filter of every pattern that has a registered listener.
C26_ListenerHasBrokerSubscription ==
    wire = <<>> =>
        \A s \in SubIds : OwnListener(s) \in listeners => subs[s].topic \in brokerSubs

C26_Witness ==
    \E a, b \in SubIds :
        /\ a # b /\ subs[a].topic = subs[b].topic
        /\ subs[a].state = "ended" /\ subs[b].state = "active"
        /\ wire = <<>> /\ OwnListener(b) \in listeners
        /\ subs[b].topic \in brokerSubs /\ got[b] > got[a]

(* ======================= connect(): properties ======================== *)
\* C27: when the connect timeout has elapsed with no handshake so far (and
\* no teardown is still running) the promise is rejected; when an error came
\* before any handshake the promise is rejected with that error once the
\* mqtt client has ended; a settled promise never changes (later errors do
\* not reject a resolved connection); and at most one Client is created and
\* onConnected is called at most once, however many 'connect' events follow.
C27_ConnectSettlesOnce ==
    /\ [] (conn.timedOut /\ conn.connects = 0 /\ conn.ending # "pending" =>
              conn.promise.state = "rejected")
    /\ [] (conn.ending = "done" =>
              conn.promise = Rejected(conn.error) /\ conn.error \in ConnectionErrors
                                                     \cup {<< <<"name", "Error">>, <<"message", "connack timeout">> >>})
    /\ [][conn.promise.state # "pending" => conn'.promise = conn.promise]_vars
    /\ [] (conn.clients <= 1 /\ conn.onConnectedCalls <= 1)

(* ================ init() and stop(): properties ======================= *)
RetainedTopics == { <<"dab", "version">>, <<"dab", "device", "info">> }
AllPubs == { life.out[i] : i \in DOMAIN life.out } \cup { h.pub : h \in life.handled }
Through(by, topic, retain) ==
    \E h \in life.handled :
        h.ok /\ h.pub.by = by /\ h.pub.topic = topic /\ h.pub.retain = retain

\* C28: every publish with the retained flag is on the version topic or the
\* device-info topic; nothing is published before the client is connected;
\* when init() has returned, its retained publishes of the version and of a
\* device info have gone through; when stop() calls client.stop(), and so
\* whenever the connection is closed, the shutting-down notification and the
\* clearing of both topics have gone through and the broker holds no
\* retained message of the bridge.
C28_RetainedLifecycle ==
    /\ \A p \in AllPubs : p.retain => p.topic \in RetainedTopics
    /\ life.connection = "none" => AllPubs = {}
    /\ life.initPc = "returned" =>
           /\ \A t \in RetainedTopics : Through("init", t, TRUE)
           /\ \A h \in life.handled : h.pub.by = "init" /\ h.pub.retain => h.pub.raw # <<"empty">>
    /\ life.stopPc \in {"stopping", "returned"} =>
           /\ \A t \in RetainedTopics :
                  \E h \in life.handled : h.ok /\ h.pub = [by |-> "stop", topic |-> t,
                                                            raw |-> <<"empty">>, retain |-> TRUE]
           /\ Through("stop", <<"dab", "messages">>, FALSE)
           /\ life.retained = {}
    /\ life.connection = "closed" => life.stopPc = "returned"

C28_Witness ==
    /\ life.initPc = "returned" /\ life.stopPc = "returned" /\ life.connection = "closed"
    /\ life.retained = {} /\ Cardinality(life.handled) = 6

(* ================== cancellation: properties ========================== *)
\* C29: the promise of a request() call changes only in a step that delivers
\* a message on its own response topic, fires its own timer or fails its own
\* publish (so neither another call's timer nor Client.end() settles it), and
\* the timer of a telemetry session stops being live only in a step in which
\* a stop call for the key of that session arrives and returns success.
C29_ExclusiveCancellation ==
    [][/\ \A a \in ReqIds : promise'[a] # promise[a] => OwnEvent(a)
       /\ \A c \in CallIds :
              timers[c] = "live" /\ timers'[c] # "live" =>
                  /\ Arrives /\ IsStopRec(call'[nextCall'])
                  /\ SucceededRec(call'[nextCall'])
                  /\ KeyOf(call'[nextCall']) = KeyOf(call[c])]_vars

(* ================== request(): teardown =============================== *)
Settled(r) == promise[r].state # "pending"

\* C31: once a call has settled and its transport calls, its timer and its
\* queued end() calls have all completed, no listener for its response topic
\* is registered, its timer is not armed and at most one unsubscribe was
\* issued for its response topic.
C31_TeardownOnce ==
    \A r \in ReqIds : Settled(r) /\ Idle(r) =>
        /\ ~ HasListener(r)
        /\ timer[r] # "armed"
        /\ unsubIssued[r] <= 1

(* ================== failure envelopes: properties ===================== *)
\* C32: every envelope published for a failed handler carries an error text
\* and a status outside 200..299, whatever the status field of the failure.
C32_FailureEnvelopeNot2xx ==
    \A i \in TaskIds : HandlerFailed(i) /\ pubs[i] # <<>> =>
        /\ HasKey(Published(i), "error")
        /\ ~ InRange2xx(Get(Published(i), "status"))

(* ============== device and application sessions: properties =========== *)
AppCalls(a) == { c \in CallIds : call[c].op = "startApp" /\ call[c].appId = JsString(a) }
DeviceTimers == { c \in CallIds : call[c].op = "startDevice" }

\* C33: a stopAppTelemetry(A) that returns success finds a live timer of an
\* application session of A, and no stopAppTelemetry changes the timer of a
\* device session; a startAppTelemetry(A) with a valid frequency is refused
\* only if a start of an application session of A was made before.
C33_IndependentSessions ==
    [][\A a \in AppIds :
          /\ ( Arrives /\ call'[nextCall'].op = "stopApp"
                /\ call'[nextCall'].appId = JsString(a) ) =>
                /\ SucceededRec(call'[nextCall']) =>
                       \E c \in AppCalls(a) : timers[c] = "live" /\ timers'[c] = "cleared"
                /\ \A d \in DeviceTimers : timers'[d] = timers[d]
          /\ ( Arrives /\ call'[nextCall'].op = "startApp"
                /\ call'[nextCall'].appId = JsString(a)
                /\ Failed400Rec(call'[nextCall']) ) =>
                AppCalls(a) # {}]_vars

(* ============== messages after a stop: properties ===================== *)
\* a stop for the key has returned success and no start for it has
\* succeeded since: no session is recorded for the key
StoppedKey(key) ==
    /\ telemetry[key[Len(key)]] = 0
    /\ \E t \in CallIds : IsStop(t) /\ SessionKey(t) = key /\ Succeeded(t)

\* C34: no message of a timer firing is published for a key while the last
\* thing that succeeded for that key is a stop.
C34_NoMessageAfterStop ==
    [][\A m \in metrics' \ metrics : m.tick > 0 => ~ StoppedKey(SessionKey(m.by))]_vars

(* ================== failed starts: properties ========================= *)
\* C35: a start whose immediate producer call or immediate publish failed
\* owns no timer and is not recorded in the session map; once the dispatcher
\* has dealt with its failure exactly one envelope with status 500 and an
\* error text has been published for the request; and a start is refused as
\* already started only when an earlier start has succeeded.
C35_FailedStartLeavesNoSession ==
    /\ [] (\A i \in TaskIds : call[i].pc = "threw" =>
              /\ timers[i] = "none" /\ telemetry["device"] # i
              /\ task[i].state # "running" =>
                     /\ Len(pubs[i]) = 1
                     /\ HasKey(Published(i), "error")
                     /\ Get(Published(i), "status") = 500)
    /\ [][Arrives /\ Failed400Rec(call'[nextCall']) =>
              \E c \in CallIds : IsStart(c) /\ Succeeded(c)]_vars

(* ================== the app table: properties ========================= *)
\* launchApp, exitApp or getAppState for appId a answers 404
NotFound(m, a) == ~ IsImpl(Lookup(m, ToLowerCase(a.str)))
Answered404 == Get(bridge'.last.response, "status") = 404
AppRequest(a) ==
    \/ \E p \in LaunchParams, ok \in BOOLEAN : LaunchApp(a, p, ok)
    \/ \E force, bg, ok \in BOOLEAN, st \in AdbStatuses \cup {"fails"} :
           ExitApp(a, force, st, bg, ok)
    \/ \E st \in AdbStatuses \cup {"fails"} : GetAppState(a, st)

\* C36: no request changes the app table; a launchApp, exitApp or
\* getAppState for a string appId answers 404 exactly when the configured
\* table resolves no implementation for it, whatever requests came before;
\* and listApps lists for a set of installed packages what the configured
\* table yields for that set.
C36_PureResolution ==
    [][/\ bridge'.appMap = bridge.appMap
       /\ \A a \in AppIdInputs : a.type = "string" /\ AppRequest(a) =>
              (Answered404 <=> NotFound(ConfigAppMap, a))
       /\ \A pk \in SUBSET Packages : ListApps(pk, TRUE) =>
              Get(bridge'.last.response, "applications") = Applications(ConfigAppMap, pk, 1)]_vars

(* ============== application requests: properties ====================== *)
\* the lower-cased appId is a key of the app table
KnownApp(a) == a.type = "string" /\ ToLowerCase(a.str) \in DOMAIN bridge.appMap
LastStatus == Get(bridge'.last.response, "status")
\* an envelope with a status, and an error text exactly when it is not 2xx
WellFormed(r) ==
    /\ ~ Threw(r) /\ HasKey(r, "status")
    /\ HasKey(r, "error") <=> ~ InRange2xx(Get(r, "status"))
    /\ HasKey(r, "error") => Get(r, "error") \notin { <<>>, <<"">> }
NoDeviceAction == bridge'.last.actions = <<>>

\* C37: every launchApp, exitApp and getAppState returns a well-formed
\* envelope: 400 with an error and no device action when appId is not a
\* string; 404 with an error and no device action when the lower-cased appId
\* is no key of the app table; otherwise 500 with the message of the failure
\* when the device action fails and a 2xx envelope when it does not.
C37_AppEnvelopes ==
    [][\A a \in AppIdInputs :
          /\ AppRequest(a) =>
                /\ WellFormed(bridge'.last.response)
                /\ a.type # "string" => LastStatus = 400 /\ NoDeviceAction
                /\ a.type = "string" /\ ~ KnownApp(a) => LastStatus = 404 /\ NoDeviceAction
                /\ LastStatus = 500 => Get(bridge'.last.response, "error") = AdbError
          /\ \A p \in LaunchParams, ok \in BOOLEAN : KnownApp(a) /\ LaunchApp(a, p, ok) =>
                LastStatus = (IF ok THEN 200 ELSE 500)
          /\ \A st \in AdbStatuses \cup {"fails"} : KnownApp(a) /\ GetAppState(a, st) =>
                LastStatus = (IF st = "fails" THEN 500 ELSE 200)
          /\ \A force, bg, ok \in BOOLEAN, st \in AdbStatuses \cup {"fails"} :
                KnownApp(a) /\ ExitApp(a, force, st, bg, ok) =>
                   /\ LastStatus \in {200, 500}
                   /\ LastStatus = 500 => st = "fails" \/ ~ ok]_vars

(* ===================== exitApp: properties ============================ *)
\* the app of appId a resolves to an implementation
Resolves(a) == a.type = "string" /\ IsImpl(Lookup(bridge.appMap, ToLowerCase(a.str)))
PackageOf(a) == << Lookup(bridge.appMap, ToLowerCase(a.str)).impls[1].package >>
Commands == { bridge'.last.actions[k][1] : k \in DOMAIN bridge'.last.actions }
LastState == Get(bridge'.last.response, "state")

\* C38: exitApp for an app that resolves and whose status could be read:
\* with force, adb.stop is issued exactly when the status is not Stopped and
\* a successful response has state STOPPED; without force, a Running app is
\* sent to the background and answered with BACKGROUND, adb.stop being
\* issued exactly when backgrounding failed and then answered with STOPPED;
\* an app that is not Running gets neither command and the state of its
\* status is reported.  Every command is issued for the package of the app.
C38_ExitPolicy ==
    [][\A a \in AppIdInputs, force, bg, ok \in BOOLEAN, st \in AdbStatuses :
          Resolves(a) /\ ExitApp(a, force, st, bg, ok) =>
             /\ \A k \in DOMAIN bridge'.last.actions :
                    bridge'.last.actions[k][2] = PackageOf(a)
             /\ IF force
                THEN /\ "stop" \in Commands <=> st # "Stopped"
                     /\ "backgroundApp" \notin Commands
                     /\ LastStatus = 200 => LastState = "STOPPED"
                     /\ LastStatus = 200 <=> (st = "Stopped" \/ ok)
                ELSE IF st = "Running"
                THEN /\ "backgroundApp" \in Commands
                     /\ "stop" \in Commands <=> ~ bg
                     /\ bg => LastStatus = 200 /\ LastState = "BACKGROUND"
                     /\ ~ bg /\ ok => LastStatus = 200 /\ LastState = "STOPPED"
                ELSE /\ Commands = {"status"}
                     /\ LastStatus = 200
                     /\ LastState = adbAppStatusToDabAppState(st)]_vars

C38_Witness ==
    /\ bridge.last.op = "exitApp" /\ bridge.last.appId = JsString("YouTube")
    /\ Len(bridge.last.actions) = 3 /\ bridge.last.actions[3] = <<"stop", <<"com.youtube.mobile">> >>
    /\ HasKey(bridge.last.response, "state")
    /\ Get(bridge.last.response, "state") = "STOPPED"

\* positions of the record of restart i
RestartLog(i, ev, pub) ==
    { k \in DOMAIN bridge.log : bridge.log[k] = RestartEvent(i, ev, pub) }
Before(ks, ls) == \A l \in ls : \E k \in ks : k < l

\* C39: restartDevice answers 202 at once, whatever the background task does
\* later; the warn notification is published before adb.reboot is issued, the
\* "back online" notification is handed over only after adb.reboot fulfilled;
\* a rejected notification or reboot is logged, leaves the 202 as it is, and
\* no "back online" notification is published for that restart
C39_RestartDevice ==
    [][ \A i \in RestartIds :
          /\ bridge.restart[i].pc # "none" =>
                /\ bridge.restart[i].response = << <<"status", 202>> >>
                /\ bridge'.restart[i].response = bridge.restart[i].response
          /\ bridge.restart[i].pc = "none" /\ bridge'.restart[i].pc # "none" =>
                /\ bridge'.restart[i].response = << <<"status", 202>> >>
                /\ bridge'.restart[i].pc = "notifying"
                /\ RestartLog(i, "reboot", <<>>)' = {}
          /\ Before(RestartLog(i, "published", <<RebootingNotice(i)>>),
                    RestartLog(i, "reboot", <<>>))'
          /\ Before(RestartLog(i, "rebooted", <<>>),
                    RestartLog(i, "publish", <<BackOnlineNotice(i)>>))'
          /\ bridge.restart[i].pc \in {"notifying", "rebooting", "announcing"}
             /\ bridge'.restart[i].pc = "failed" =>
                /\ Cardinality(RestartLog(i, "error", <<>>)') = 1
                /\ RestartLog(i, "published", <<BackOnlineNotice(i)>>)' = {}
                /\ bridge.restart[i].pc # "announcing" =>
                       RestartLog(i, "publish", <<BackOnlineNotice(i)>>)' = {}
          /\ bridge.restart[i].pc = "failed" =>
                /\ bridge'.restart[i] = bridge.restart[i]
                /\ RestartLog(i, "published", <<BackOnlineNotice(i)>>)' = {}
      ]_vars
\* a reboot fails while the other restart went through: one error logged,
\* one "back online" notification published, both answered 202
C39_Witness ==
    /\ bridge.restart[1].pc = "failed" /\ bridge.restart[2].pc = "done"
    /\ bridge.restart[1].response = << <<"status", 202>> >>
    /\ RestartLog(1, "reboot", <<>>) # {} /\ RestartLog(1, "rebooted", <<>>) = {}
    /\ RestartLog(1, "error", <<>>) # {}
    /\ RestartLog(2, "published", <<BackOnlineNotice(2)>>) # {}
====
